---- MODULE Spec2Model ----
(***************************************************************************)
(* The autograd engine of core/darv_tensor.hpp as a state machine.         *)
(*                                                                         *)
(* The heap of Tensor objects is the sequence `tensors`; a tensor's        *)
(* identity (its shared_ptr) is its index.  Every public operation of the  *)
(* class is one action; backward() is split at the invocations of          *)
(* backward_fn_ so that their order is observable, and no other operation  *)
(* runs while a backward() call is in progress (the code is synchronous).  *)
(*                                                                         *)
(* Buffers hold integers: add, multiply, multiply_scalar, pow with a       *)
(* positive integer exponent, matmul, sum, reshape and relu are exact on   *)
(* them.  sigmoid and tanh_ are rounded to the nearest integer and mean    *)
(* is taken of one-element tensors only (scalar 1/size = 1).               *)
(***************************************************************************)
EXTENDS Integers, Sequences, FiniteSets, TLC

VARIABLES
    tensors,   \* the Tensor objects created so far, by identity
    last,      \* the latest call on the API: what was called and how it ended
    pc,        \* "idle", or "backward" while a backward() call is in its loop
    root,      \* the tensor backward() was last called on (0: never)
    topo,      \* backward()'s local vector topo
    it,        \* backward()'s reverse iterator: the index in topo to run next
    ran,       \* the tensors whose backward_fn_ the current call has invoked, in order
    pre,       \* the heap as it was when the latest call was entered
    nback,     \* how many times backward() has been called
    opt,       \* the Optimizer object, once constructed
    sched,     \* the LRScheduler object, once constructed
    nstep,     \* how many times the optimizer's step() has been called
    files,     \* the model files written by ModelSerializer::save, by path
    loader,    \* the DataLoader object, once constructed
    dataset,   \* the Dataset object, once constructed
    cycle      \* the DarvCycle object, once constructed

\* The objects that are not part of the autograd engine and its optimizers
objects == <<files, loader, dataset, cycle>>

vars == <<tensors, last, pc, root, topo, it, ran, pre, nback, opt, sched, nstep, objects>>

\* No file at any path
NoFile == [exists |-> FALSE, num_params |-> 0, params |-> <<>>]

NoFiles == <<NoFile, NoFile>>

NoIterator == [phase |-> "none", end_ |-> FALSE]

NoLoader == [exists |-> FALSE, class |-> "none", size |-> 0, batch_size_ |-> 0,
             shuffle_ |-> FALSE, indices_ |-> <<>>, current_idx_ |-> 0,
             delivered |-> <<>>, passes |-> 0, iterator |-> NoIterator]

\* No Dataset.  `added` lists the (data, label) pairs in the order they were
\* given to the object; train and test are the sets of the last split.
NoSplit == [data_ |-> <<>>, labels_ |-> <<>>, size_ |-> 0]

NoDataset == [exists |-> FALSE, data_ |-> <<>>, labels_ |-> <<>>, size_ |-> 0,
              added |-> <<>>, train |-> NoSplit, test |-> NoSplit]

\* No DarvCycle: the loop counter i of run_cycles, its history of records
NoCycle == [exists |-> FALSE, max_cycles |-> 0, convergence_threshold |-> 0,
            history |-> <<>>, i |-> 0, phase |-> "none", converged |-> FALSE]

NoObjects ==
    /\ files = NoFiles
    /\ loader = NoLoader
    /\ dataset = NoDataset
    /\ cycle = NoCycle

(***************************************************************************)
(* Helpers: 0-based indexing of a buffer, folds.                           *)
(***************************************************************************)
At(buf, i) == buf[i + 1]

RECURSIVE SeqSum(_)
SeqSum(s) == IF s = <<>> THEN 0 ELSE s[1] + SeqSum(Tail(s))

RECURSIVE SeqProd(_)
SeqProd(s) == IF s = <<>> THEN 1 ELSE s[1] * SeqProd(Tail(s))

RECURSIVE IntPow(_, _)
IntPow(x, e) == IF e = 0 THEN 1 ELSE x * IntPow(x, e - 1)

Abs(x) == IF x < 0 THEN -x ELSE x

Fill(n, v) == [i \in 1..n |-> v]

Ids == 1..Len(tensors)

(***************************************************************************)
(* Tensor: size and shape helpers, constructors.                           *)
(***************************************************************************)
compute_size_empty_is_one(shape) == SeqProd(shape)

compute_size(shape) == IF shape = <<>> THEN 0 ELSE SeqProd(shape)

shapes_compatible_by_size(s1, s2) == compute_size(s1) = compute_size(s2)

shapes_compatible(s1, s2) ==
    IF Len(s1) # Len(s2) THEN FALSE
    ELSE \A i \in 1..Len(s1) : s1[i] = s2[i]

\* The closure stored in backward_fn_: the operation and what it captured.
Closure(op, this, other, result, scalar, m, k, n) ==
    [op |-> op, this |-> this, other |-> other, result |-> result,
     scalar |-> scalar, m |-> m, k |-> k, n |-> n]

NoOp == Closure("noop", 0, 0, 0, 0, 0, 0, 0)

grad_buffer_always(size, requires_grad) == Fill(size, 0)

\* grad_.resize(size_, 0.0) only if requires_grad_
grad_buffer(size, requires_grad) == IF requires_grad THEN Fill(size, 0) ELSE <<>>

\* Tensor(const Shape&, bool): zero-filled
Tensor(shape, requires_grad) ==
    [data |-> Fill(compute_size(shape), 0),
     grad |-> grad_buffer(compute_size(shape), requires_grad),
     shape |-> shape,
     size |-> compute_size(shape),
     requires_grad |-> requires_grad,
     inputs |-> <<>>,
     backward_fn |-> NoOp]

\* Tensor(const std::vector<double>&, const Shape&, bool) throws on a size mismatch
TensorData_throws(values, shape) == Len(values) # compute_size(shape)

TensorData(values, shape, requires_grad) ==
    [data |-> values,
     grad |-> grad_buffer(compute_size(shape), requires_grad),
     shape |-> shape,
     size |-> compute_size(shape),
     requires_grad |-> requires_grad,
     inputs |-> <<>>,
     backward_fn |-> NoOp]

\* A derived tensor: make_shared<Tensor>(shape, rg), data filled, inputs_ and backward_fn_ set.
Derived(shape, requires_grad, data, inputs, fn) ==
    [Tensor(shape, requires_grad) EXCEPT
        !.data = data, !.inputs = inputs, !.backward_fn = fn]

(***************************************************************************)
(* Forward operations.  Each gives the tensor a successful call allocates, *)
(* in the heap T, for operands given by identity; the new tensor's         *)
(* identity is Len(T) + 1.                                                 *)
(***************************************************************************)
\* add() whose result requires grad only when its left operand does
add_result_requires_this(T, this, other) ==
    Derived(T[this].shape, T[this].requires_grad,
            [i \in 1..T[this].size |-> T[this].data[i] + T[other].data[i]],
            <<this, other>>,
            Closure("add", this, other, Len(T) + 1, 0, 0, 0, 0))

add_result(T, this, other) ==
    Derived(T[this].shape, T[this].requires_grad \/ T[other].requires_grad,
            [j \in 1..T[this].size |-> T[this].data[j] + T[other].data[j]],
            <<this, other>>,
            Closure("add", this, other, Len(T) + 1, 0, 0, 0, 0))

multiply_result(T, this, other) ==
    Derived(T[this].shape, T[this].requires_grad \/ T[other].requires_grad,
            [j \in 1..T[this].size |-> T[this].data[j] * T[other].data[j]],
            <<this, other>>,
            Closure("multiply", this, other, Len(T) + 1, 0, 0, 0, 0))

multiply_scalar_result(T, this, scalar) ==
    Derived(T[this].shape, T[this].requires_grad,
            [j \in 1..T[this].size |-> T[this].data[j] * scalar],
            <<this>>,
            Closure("multiply_scalar", this, 0, Len(T) + 1, scalar, 0, 0, 0))

pow_result(T, this, exponent) ==
    Derived(T[this].shape, T[this].requires_grad,
            [j \in 1..T[this].size |-> IntPow(T[this].data[j], exponent)],
            <<this>>,
            Closure("pow", this, 0, Len(T) + 1, exponent, 0, 0, 0))

matmul_throws(T, this, other) ==
    \/ Len(T[this].shape) # 2 \/ Len(T[other].shape) # 2
    \/ T[this].shape[2] # T[other].shape[1]

matmul_result_shape_of_this(T, this, other) ==
    LET m == T[this].shape[1]
        k == T[this].shape[2]
        n == T[other].shape[2]
        cell(i, j) == SeqSum([l1 \in 1..k |->
                         At(T[this].data, i * k + (l1 - 1))
                       * At(T[other].data, (l1 - 1) * n + j)])
    IN  Derived(<<m, k>>, T[this].requires_grad \/ T[other].requires_grad,
                [p \in 1..compute_size(<<m, n>>) |-> cell((p - 1) \div n, (p - 1) % n)],
                <<this, other>>,
                Closure("matmul", this, other, Len(T) + 1, 0, m, k, n))

\* C = A @ B over row-major buffers, with the code's 0-based index arithmetic
matmul_result(T, this, other) ==
    LET m == T[this].shape[1]
        k == T[this].shape[2]
        n == T[other].shape[2]
        cell(i, j) == SeqSum([l1 \in 1..k |->
                         At(T[this].data, i * k + (l1 - 1))
                       * At(T[other].data, (l1 - 1) * n + j)])
    IN  Derived(<<m, n>>, T[this].requires_grad \/ T[other].requires_grad,
                [p \in 1..compute_size(<<m, n>>) |-> cell((p - 1) \div n, (p - 1) % n)],
                <<this, other>>,
                Closure("matmul", this, other, Len(T) + 1, 0, m, k, n))

sum_result(T, this) ==
    Derived(<<1>>, T[this].requires_grad,
            <<SeqSum(T[this].data)>>,
            <<this>>,
            Closure("sum", this, 0, Len(T) + 1, 0, 0, 0, 0))

relu_result(T, this) ==
    Derived(T[this].shape, T[this].requires_grad,
            [j \in 1..T[this].size |-> IF T[this].data[j] > 0 THEN T[this].data[j] ELSE 0],
            <<this>>,
            Closure("relu", this, 0, Len(T) + 1, 0, 0, 0, 0))

\* 1 / (1 + exp(-x)) to the nearest integer: 0 up to x = 0, 1 from x = 1
sigmoid_value(x) == IF x > 0 THEN 1 ELSE 0

sigmoid_result(T, this) ==
    Derived(T[this].shape, T[this].requires_grad,
            [j \in 1..T[this].size |-> sigmoid_value(T[this].data[j])],
            <<this>>,
            Closure("sigmoid", this, 0, Len(T) + 1, 0, 0, 0, 0))

\* tanh(x) to the nearest integer: the sign of x
tanh_value(x) == IF x > 0 THEN 1 ELSE IF x < 0 THEN -1 ELSE 0

tanh_result(T, this) ==
    Derived(T[this].shape, T[this].requires_grad,
            [j \in 1..T[this].size |-> tanh_value(T[this].data[j])],
            <<this>>,
            Closure("tanh", this, 0, Len(T) + 1, 0, 0, 0, 0))

reshape_result_detached(T, this, new_shape) ==
    [TensorData(T[this].data, new_shape, FALSE) EXCEPT
        !.inputs = <<this>>,
        !.backward_fn = Closure("reshape", this, 0, Len(T) + 1, 0, 0, 0, 0)]

reshape_throws(T, this, new_shape) == compute_size(new_shape) # T[this].size

\* make_shared<Tensor>(data_, new_shape, requires_grad_): the data constructor
reshape_result(T, this, new_shape) ==
    [TensorData(T[this].data, new_shape, T[this].requires_grad) EXCEPT
        !.inputs = <<this>>,
        !.backward_fn = Closure("reshape", this, 0, Len(T) + 1, 0, 0, 0, 0)]

(***************************************************************************)
(* The backward rules: what each closure does to the heap when invoked.    *)
(* The loop  for (i = 0; i < size; i++) buf[i] += terms[i] is Accumulate;  *)
(* a loop that runs past the end of buf has no value here.                 *)
(***************************************************************************)
Accumulate(buf, size, terms) ==
    [j \in 1..(IF size > Len(buf) THEN size ELSE Len(buf)) |->
        IF j <= size THEN buf[j] + terms[j] ELSE buf[j]]

\* The update of one operand by a closure, guarded by the operand's requires_grad_
AddInto(T, t, terms) ==
    IF T[t].requires_grad
    THEN [T EXCEPT ![t].grad = Accumulate(T[t].grad, T[t].size, terms)]
    ELSE T

add_backward(T, fn) ==
    LET T1 == AddInto(T, fn.this,
            [j \in 1..T[fn.this].size |-> T[fn.result].grad[j]])
    IN  AddInto(T1, fn.other,
            [j \in 1..T1[fn.other].size |-> T1[fn.result].grad[j]])

multiply_backward_overwrites(T, fn) ==
    LET set(U, t, term(_)) ==
            IF U[t].requires_grad
            THEN [U EXCEPT ![t].grad = [j \in 1..Len(@) |-> term(j)]]
            ELSE U
        T1 == set(T, fn.this, LAMBDA j : T[fn.other].data[j] * T[fn.result].grad[j])
    IN  set(T1, fn.other, LAMBDA j : T1[fn.this].data[j] * T1[fn.result].grad[j])

multiply_backward(T, fn) ==
    LET T1 == AddInto(T, fn.this,
            [j \in 1..T[fn.this].size |-> T[fn.other].data[j] * T[fn.result].grad[j]])
    IN  AddInto(T1, fn.other,
            [j \in 1..T1[fn.other].size |-> T1[fn.this].data[j] * T1[fn.result].grad[j]])

multiply_scalar_backward(T, fn) ==
    AddInto(T, fn.this,
            [j \in 1..T[fn.this].size |-> fn.scalar * T[fn.result].grad[j]])

\* d/dx (x^n) = n * x^(n-1)
pow_backward(T, fn) ==
    AddInto(T, fn.this,
            [j \in 1..T[fn.this].size |-> fn.scalar * IntPow(T[fn.this].data[j], fn.scalar - 1)
                       * T[fn.result].grad[j]])

matmul_backward_dA_untransposed(T, fn) ==
    LET m == fn.m
        k == fn.k
        n == fn.n
        grad_sum(i, j) == SeqSum([l1 \in 1..n |->
                              At(T[fn.result].grad, i * n + (l1 - 1))
                            * At(T[fn.other].data, ((l1 - 1) * k + j) % (k * n))])
    IN  IF T[fn.this].requires_grad
        THEN [T EXCEPT ![fn.this].grad =
                 [p \in 1..Len(@) |->
                     IF p <= m * k
                     THEN @[p] + grad_sum((p - 1) \div k, (p - 1) % k)
                     ELSE @[p]]]
        ELSE T

\* dL/dA = dL/dC @ B^T, then dL/dB = A^T @ dL/dC, with the code's index arithmetic
matmul_backward_dA(T, fn) ==
    LET m == fn.m
        k == fn.k
        n == fn.n
        grad_sum(i, j) == SeqSum([l1 \in 1..n |->
                              At(T[fn.result].grad, i * n + (l1 - 1))
                            * At(T[fn.other].data, j * n + (l1 - 1))])
    IN  IF T[fn.this].requires_grad
        THEN [T EXCEPT ![fn.this].grad =
                 [p \in 1..Len(@) |->
                     IF p <= m * k
                     THEN @[p] + grad_sum((p - 1) \div k, (p - 1) % k)
                     ELSE @[p]]]
        ELSE T

matmul_backward_dB(T, fn) ==
    LET m == fn.m
        k == fn.k
        n == fn.n
        grad_sum(i, j) == SeqSum([l1 \in 1..m |->
                              At(T[fn.this].data, (l1 - 1) * k + i)
                            * At(T[fn.result].grad, (l1 - 1) * n + j)])
    IN  IF T[fn.other].requires_grad
        THEN [T EXCEPT ![fn.other].grad =
                 [p \in 1..Len(@) |->
                     IF p <= k * n
                     THEN @[p] + grad_sum((p - 1) \div n, (p - 1) % n)
                     ELSE @[p]]]
        ELSE T

matmul_backward(T, fn) == matmul_backward_dB(matmul_backward_dA(T, fn), fn)

sum_backward(T, fn) ==
    AddInto(T, fn.this,
            [j \in 1..T[fn.this].size |-> At(T[fn.result].grad, 0)])

relu_backward(T, fn) ==
    AddInto(T, fn.this,
            [j \in 1..T[fn.this].size |-> IF T[fn.this].data[j] > 0 THEN T[fn.result].grad[j] ELSE 0])

\* s * (1 - s) * grad with s the output
sigmoid_backward(T, fn) ==
    AddInto(T, fn.this,
            [j \in 1..T[fn.this].size |-> T[fn.result].data[j] * (1 - T[fn.result].data[j])
                       * T[fn.result].grad[j]])

\* (1 - t * t) * grad with t the output
tanh_backward(T, fn) ==
    AddInto(T, fn.this,
            [j \in 1..T[fn.this].size |-> (1 - T[fn.result].data[j] * T[fn.result].data[j])
                       * T[fn.result].grad[j]])

reshape_backward_none(T, fn) == T

\* Gradient flows back unchanged
reshape_backward(T, fn) ==
    AddInto(T, fn.this,
            [j \in 1..T[fn.this].size |-> T[fn.result].grad[j]])

\* 1.0 / t->data()[i] on a clipped value: 1 / 1e-7, or 1 / (1 - 1e-7) to the nearest integer
reciprocal(x) == IF x <= 0 THEN 10000000 ELSE 1

\* The closure CrossEntropyLoss::log_tensor stores
log_backward(T, fn) ==
    AddInto(T, fn.this,
            [j \in 1..T[fn.this].size |-> reciprocal(T[fn.this].data[j]) * T[fn.result].grad[j]])

(***************************************************************************)
(* The elements of grad buffers a closure reads or writes when invoked:    *)
(* pairs of a tensor and an index from 0, as the loops of the closure      *)
(* compute them.                                                           *)
(***************************************************************************)
Access(t, i) == [tensor |-> t, index |-> i]

\* for (i = 0; i < t->size_; i++) t->grad_[i] += ... result->grad_[i], if t requires grad
elementwise_accesses(T, t, result) ==
    IF T[t].requires_grad
    THEN {Access(t, i) : i \in 0..(T[t].size - 1)}
         \cup {Access(result, i) : i \in 0..(T[t].size - 1)}
    ELSE {}

\* this->grad_[i] += result->grad_[0]
sum_accesses(T, fn) ==
    IF T[fn.this].requires_grad
    THEN {Access(fn.this, i) : i \in 0..(T[fn.this].size - 1)}
         \cup {Access(fn.result, 0) : i \in 0..(T[fn.this].size - 1)}
    ELSE {}

\* result->grad_[i * n + l] and this->grad_[i * k + j];
\* result->grad_[l * n + j] and other->grad_[i * n + j]
matmul_accesses(T, fn) ==
    (IF T[fn.this].requires_grad
     THEN {Access(fn.this, i * fn.k + j) : i \in 0..(fn.m - 1), j \in 0..(fn.k - 1)}
          \cup {Access(fn.result, i * fn.n + l) : i \in 0..(fn.m - 1), l \in 0..(fn.n - 1)}
     ELSE {})
    \cup
    (IF T[fn.other].requires_grad
     THEN {Access(fn.other, i * fn.n + j) : i \in 0..(fn.k - 1), j \in 0..(fn.n - 1)}
          \cup {Access(fn.result, l * fn.n + j) : l \in 0..(fn.m - 1), j \in 0..(fn.n - 1)}
     ELSE {})

\* output->grad()[i] and result->grad()[i] for i < result->size();
\* bias->grad()[j] and result->grad()[i * out_feat + j]
linear_accesses(T, fn) ==
    (IF T[fn.this].requires_grad
     THEN {Access(fn.this, i) : i \in 0..(T[fn.result].size - 1)}
          \cup {Access(fn.result, i) : i \in 0..(T[fn.result].size - 1)}
     ELSE {})
    \cup
    (IF T[fn.other].requires_grad
     THEN {Access(fn.other, j) : j \in 0..(fn.n - 1)}
          \cup {Access(fn.result, i * fn.n + j) : i \in 0..(fn.m - 1), j \in 0..(fn.n - 1)}
     ELSE {})

grad_accesses(T, fn) ==
    CASE fn.op = "noop" -> {}
      [] fn.op \in {"add", "multiply"} ->
            elementwise_accesses(T, fn.this, fn.result)
            \cup elementwise_accesses(T, fn.other, fn.result)
      [] fn.op \in {"multiply_scalar", "pow", "relu", "sigmoid", "tanh", "reshape"} ->
            elementwise_accesses(T, fn.this, fn.result)
      [] fn.op = "sum" -> sum_accesses(T, fn)
      [] fn.op = "matmul" -> matmul_accesses(T, fn)
      [] fn.op = "log" -> elementwise_accesses(T, fn.this, fn.result)
      [] fn.op = "linear" -> linear_accesses(T, fn)

\* The closure Linear::forward gives its result: output.grad += result.grad, and
\* bias.grad[j] += result.grad[i * out_feat + j] over the batch_size rows (fn.m)
\* and the out_feat columns (fn.n); fn.this is output, fn.other the bias.
linear_backward(T, fn) ==
    LET T1 == AddInto(T, fn.this,
            [e \in 1..T[fn.result].size |-> T[fn.result].grad[e]])
    IN  AddInto(T1, fn.other,
            [j \in 1..fn.n |->
                SeqSum([i \in 1..fn.m |-> T1[fn.result].grad[(i - 1) * fn.n + j]])])

\* (*it)->backward_fn_()
call_backward_fn(T, t) ==
    LET fn == T[t].backward_fn
    IN  CASE fn.op = "noop" -> T
          [] fn.op = "add" -> add_backward(T, fn)
          [] fn.op = "multiply" -> multiply_backward(T, fn)
          [] fn.op = "multiply_scalar" -> multiply_scalar_backward(T, fn)
          [] fn.op = "pow" -> pow_backward(T, fn)
          [] fn.op = "matmul" -> matmul_backward(T, fn)
          [] fn.op = "sum" -> sum_backward(T, fn)
          [] fn.op = "relu" -> relu_backward(T, fn)
          [] fn.op = "sigmoid" -> sigmoid_backward(T, fn)
          [] fn.op = "tanh" -> tanh_backward(T, fn)
          [] fn.op = "reshape" -> reshape_backward(T, fn)
          [] fn.op = "log" -> log_backward(T, fn)
          [] fn.op = "linear" -> linear_backward(T, fn)

(***************************************************************************)
(* backward(): the topological order, and zero_grad().                     *)
(***************************************************************************)
RECURSIVE build_topo(_, _, _), build_topo_inputs(_, _, _, _)

\* for (auto& input : t->inputs_) build_topo(input);
build_topo_inputs(T, ins, i, st) ==
    IF i > Len(ins) THEN st
    ELSE build_topo_inputs(T, ins, i + 1, build_topo(T, ins[i], st))

build_topo_no_visited(T, t, st) ==
    [build_topo_inputs(T, T[t].inputs, 1, st) EXCEPT !.topo = Append(@, t)]

build_topo_preorder(T, t, st) ==
    IF t \in st.visited THEN st
    ELSE build_topo_inputs(T, T[t].inputs, 1,
             [visited |-> st.visited \cup {t}, topo |-> Append(st.topo, t)])

\* st is the pair of backward()'s locals visited and topo
build_topo(T, t, st) ==
    IF t \in st.visited THEN st
    ELSE [build_topo_inputs(T, T[t].inputs, 1, [st EXCEPT !.visited = @ \cup {t}])
             EXCEPT !.topo = Append(@, t)]

\* std::fill(grad_.begin(), grad_.end(), 1.0)
seed_grad_accumulates(T, r) == [T EXCEPT ![r].grad = [j \in 1..Len(@) |-> @[j] + 1]]

seed_grad(T, r) == [T EXCEPT ![r].grad = Fill(Len(@), 1)]

RECURSIVE zero_grad(_, _), zero_grad_inputs(_, _, _)

zero_grad_inputs(T, ins, i) ==
    IF i > Len(ins) THEN T
    ELSE zero_grad_inputs(zero_grad(T, ins[i]), ins, i + 1)

zero_grad_own_only(T, t) == [T EXCEPT ![t].grad = Fill(Len(@), 0)]

zero_grad(T, t) ==
    zero_grad_inputs([T EXCEPT ![t].grad = Fill(Len(@), 0)], T[t].inputs, 1)

(***************************************************************************)
(* The calls of the API as actions.  `last` records the call and whether   *)
(* it threw; `pre` is the heap on entry.  A call that throws allocates     *)
(* nothing.                                                                *)
(***************************************************************************)
Call(call, this, other, shape, values, threw, out) ==
    [call |-> call, this |-> this, other |-> other, shape |-> shape,
     values |-> values, threw |-> threw, out |-> out]

\* A call other than backward(): backward()'s locals are gone
Returns(call, this, other, shape, values, heap) ==
    /\ pc = "idle"
    /\ pre' = tensors
    /\ tensors' = heap
    /\ last' = Call(call, this, other, shape, values, FALSE,
                    IF Len(heap) > Len(tensors) THEN Len(heap) ELSE 0)
    /\ pc' = "idle" /\ root' = 0 /\ topo' = <<>> /\ it' = 0 /\ ran' = <<>>
    /\ UNCHANGED <<nback, opt, sched, nstep, objects>>

Throws(call, this, other, shape, values) ==
    /\ pc = "idle"
    /\ pre' = tensors
    /\ tensors' = tensors
    /\ last' = Call(call, this, other, shape, values, TRUE, 0)
    /\ pc' = "idle" /\ root' = 0 /\ topo' = <<>> /\ it' = 0 /\ ran' = <<>>
    /\ UNCHANGED <<nback, opt, sched, nstep, objects>>

zeros(shape, requires_grad) ==
    Returns("zeros", 0, 0, shape, <<>>, Append(tensors, Tensor(shape, requires_grad)))

ones(shape, requires_grad) ==
    Returns("ones", 0, 0, shape, <<>>,
            Append(tensors, [Tensor(shape, requires_grad) EXCEPT
                                !.data = Fill(Len(@), 1)]))

from_data(values, shape, requires_grad) ==
    IF TensorData_throws(values, shape)
    THEN Throws("Tensor", 0, 0, shape, values)
    ELSE Returns("Tensor", 0, 0, shape, values,
                 Append(tensors, TensorData(values, shape, requires_grad)))

add(this, other) ==
    IF ~shapes_compatible(tensors[this].shape, tensors[other].shape)
    THEN Throws("add", this, other, <<>>, <<>>)
    ELSE Returns("add", this, other, <<>>, <<>>,
                 Append(tensors, add_result(tensors, this, other)))

multiply(this, other) ==
    IF ~shapes_compatible(tensors[this].shape, tensors[other].shape)
    THEN Throws("multiply", this, other, <<>>, <<>>)
    ELSE Returns("multiply", this, other, <<>>, <<>>,
                 Append(tensors, multiply_result(tensors, this, other)))

multiply_scalar(this, scalar) ==
    Returns("multiply_scalar", this, 0, <<>>, <<scalar>>,
            Append(tensors, multiply_scalar_result(tensors, this, scalar)))

pow(this, exponent) ==
    Returns("pow", this, 0, <<>>, <<exponent>>,
            Append(tensors, pow_result(tensors, this, exponent)))

matmul(this, other) ==
    IF matmul_throws(tensors, this, other)
    THEN Throws("matmul", this, other, <<>>, <<>>)
    ELSE Returns("matmul", this, other, <<>>, <<>>,
                 Append(tensors, matmul_result(tensors, this, other)))

sum(this) ==
    Returns("sum", this, 0, <<>>, <<>>, Append(tensors, sum_result(tensors, this)))

\* sum() and then multiply_scalar(1.0 / size_) on the sum: two tensors
mean(this) ==
    /\ tensors[this].size = 1
    /\ LET T1 == Append(tensors, sum_result(tensors, this))
       IN  Returns("mean", this, 0, <<>>, <<>>,
                   Append(T1, multiply_scalar_result(T1, Len(T1), 1)))

relu(this) ==
    Returns("relu", this, 0, <<>>, <<>>, Append(tensors, relu_result(tensors, this)))

sigmoid(this) ==
    Returns("sigmoid", this, 0, <<>>, <<>>, Append(tensors, sigmoid_result(tensors, this)))

tanh_(this) ==
    Returns("tanh_", this, 0, <<>>, <<>>, Append(tensors, tanh_result(tensors, this)))

reshape(this, new_shape) ==
    IF reshape_throws(tensors, this, new_shape)
    THEN Throws("reshape", this, 0, new_shape, <<>>)
    ELSE Returns("reshape", this, 0, new_shape, <<>>,
                 Append(tensors, reshape_result(tensors, this, new_shape)))

\* reshape(Shape{size_})
flatten(this) ==
    IF reshape_throws(tensors, this, <<tensors[this].size>>)
    THEN Throws("flatten", this, 0, <<tensors[this].size>>, <<>>)
    ELSE Returns("flatten", this, 0, <<tensors[this].size>>, <<>>,
                 Append(tensors, reshape_result(tensors, this, <<tensors[this].size>>)))

ZeroGrad(this) ==
    Returns("zero_grad", this, 0, <<>>, <<>>, zero_grad(tensors, this))

\* backward() up to its loop: the order is built and the root's grad is seeded
backward(this) ==
    /\ pc = "idle"
    /\ pre' = tensors
    /\ LET st == build_topo(tensors, this, [visited |-> {}, topo |-> <<>>])
       IN  /\ topo' = st.topo
           /\ it' = Len(st.topo)
    /\ tensors' = seed_grad(tensors, this)
    /\ last' = Call("backward", this, 0, <<>>, <<>>, FALSE, 0)
    /\ pc' = "backward" /\ root' = this /\ ran' = <<>>
    /\ nback' = nback + 1
    /\ UNCHANGED <<opt, sched, nstep, objects>>

\* One turn of  for (it = topo.rbegin(); it != topo.rend(); ++it) (*it)->backward_fn_();
\* backward() returns after the last one.
backward_fn(t) ==
    /\ pc = "backward"
    /\ it >= 1
    /\ t = topo[it]
    /\ tensors' = call_backward_fn(tensors, t)
    /\ ran' = Append(ran, t)
    /\ it' = it - 1
    /\ pc' = IF it = 1 THEN "idle" ELSE "backward"
    /\ topo' = IF it = 1 THEN <<>> ELSE topo
    /\ UNCHANGED <<last, root, pre, nback, opt, sched, nstep, objects>>

(***************************************************************************)
(* The loss functions of core/layers/nn_layers.hpp, each one call that     *)
(* allocates every tensor of its expression.  Both end in mean() and are   *)
(* taken of one-element predictions (mean's scalar 1/size = 1).  The       *)
(* clipping bounds 1e-7 and 1 - 1e-7 are 0 and 1 to the nearest integer,   *)
(* and their logarithms -16 and 0.                                         *)
(***************************************************************************)
ones_result(shape, requires_grad) ==
    [Tensor(shape, requires_grad) EXCEPT !.data = Fill(Len(@), 1)]

\* std::max(eps, std::min(1.0 - eps, p))
clip(p) == IF p <= 0 THEN 0 ELSE 1

\* std::log of a value in [1e-7, 1]
log_value(x) == IF x <= 0 THEN -16 ELSE 0

log_result(T, t) ==
    Derived(T[t].shape, T[t].requires_grad,
            [j \in 1..T[t].size |-> log_value(T[t].data[j])],
            <<t>>,
            Closure("log", t, 0, Len(T) + 1, 0, 0, 0, 0))

Loss_throws(T, pred, target) == T[pred].size # T[target].size

\* pred->flatten(), target->flatten()
Loss_flattened(T, pred, target) ==
    LET T1 == Append(T, reshape_result(T, pred, <<T[pred].size>>))
    IN  Append(T1, reshape_result(T1, target, <<T[target].size>>))

\* sum(), multiply_scalar(1.0 / size_) of the tensor last allocated
mean_result(T) ==
    LET T1 == Append(T, sum_result(T, Len(T)))
    IN  Append(T1, multiply_scalar_result(T1, Len(T1), 1))

\* mean((pred - target)^2)
MSELoss_compute(T, pred, target) ==
    LET T2 == Loss_flattened(T, pred, target)
        pred_flat == Len(T) + 1
        target_flat == Len(T) + 2
        T3 == Append(T2, multiply_scalar_result(T2, target_flat, -1))
        T4 == Append(T3, add_result(T3, pred_flat, Len(T3)))
        T5 == Append(T4, multiply_result(T4, Len(T4), Len(T4)))
    IN  mean_result(T5)

\* for (auto& p : pred_flat->data()) p = clip(p)
CrossEntropyLoss_clipped(T, pred_flat) ==
    [T EXCEPT ![pred_flat].data = [j \in 1..Len(@) |-> clip(@[j])]]

\* One more tensor allocated: the result of the named operation
with_add(T, this, other) == Append(T, add_result(T, this, other))

with_multiply(T, this, other) == Append(T, multiply_result(T, this, other))

with_multiply_scalar(T, this, scalar) ==
    Append(T, multiply_scalar_result(T, this, scalar))

with_log(T, t) == Append(T, log_result(T, t))

\* Tensor::ones(t->shape())
with_ones(T, t) == Append(T, ones_result(T[t].shape, TRUE))

\* pred_flat (n + 1), target_flat (n + 2), the clip, log_pred (n + 3)
CrossEntropyLoss_log_pred(T, pred, target) ==
    with_log(CrossEntropyLoss_clipped(Loss_flattened(T, pred, target), Len(T) + 1),
             Len(T) + 1)

\* log_one_minus_pred (n + 8) = log(ones + pred_flat * -1)
CrossEntropyLoss_log_one_minus_pred(T, n) ==
    with_log(with_add(with_multiply_scalar(with_multiply_scalar(with_ones(T, n + 1),
                                                                n + 4, 1),
                                           n + 1, -1),
                      n + 5, n + 6),
             n + 7)

\* term1 (n + 9) = target_flat * log_pred
CrossEntropyLoss_term1(T, n) == with_multiply(T, n + 2, n + 3)

\* term2 (n + 14) = (ones + target_flat * -1) * log_one_minus_pred
CrossEntropyLoss_term2(T, n) ==
    with_multiply(with_add(with_multiply_scalar(with_multiply_scalar(with_ones(T, n + 2),
                                                                     n + 10, 1),
                                                n + 2, -1),
                           n + 11, n + 12),
                  n + 13, n + 8)

\* -mean(target * log(pred) + (1 - target) * log(1 - pred))
CrossEntropyLoss_compute(T, pred, target) ==
    with_multiply_scalar(
        mean_result(
            with_add(
                CrossEntropyLoss_term2(
                    CrossEntropyLoss_term1(
                        CrossEntropyLoss_log_one_minus_pred(
                            CrossEntropyLoss_log_pred(T, pred, target), Len(T)),
                        Len(T)),
                    Len(T)),
                Len(T) + 9, Len(T) + 14)),
        Len(T) + 17, -1)

MSELoss(pred, target) ==
    /\ tensors[pred].size = 1
    /\ IF Loss_throws(tensors, pred, target)
       THEN Throws("MSELoss", pred, target, <<>>, <<>>)
       ELSE Returns("MSELoss", pred, target, <<>>, <<>>,
                    MSELoss_compute(tensors, pred, target))

CrossEntropyLoss(pred, target) ==
    /\ tensors[pred].size = 1
    /\ IF Loss_throws(tensors, pred, target)
       THEN Throws("CrossEntropyLoss", pred, target, <<>>, <<>>)
       ELSE Returns("CrossEntropyLoss", pred, target, <<>>, <<>>,
                    CrossEntropyLoss_compute(tensors, pred, target))

(***************************************************************************)
(* core/darv_optimizer.hpp.  The hyperparameters are integer-valued        *)
(* doubles, on which +, - and * are exact.  A quotient or a square root    *)
(* that is not an integer is rounded to the nearest one; 0/0 and the root  *)
(* of a negative number are NaN, which every operation on it passes on.    *)
(***************************************************************************)
\* The double NaN: an integer no computation of the model reaches
NaN == -(2 ^ 30)

Plus(x, y) == IF x = NaN \/ y = NaN THEN NaN ELSE x + y

Minus(x, y) == IF x = NaN \/ y = NaN THEN NaN ELSE x - y

Times(x, y) == IF x = NaN \/ y = NaN THEN NaN ELSE x * y

\* x / y; x / 0 with x # 0 (an infinity in the code) is reached by no computation here
Quot(x, y) ==
    IF x = NaN \/ y = NaN \/ y = 0 THEN NaN
    ELSE IF y > 0 THEN (2 * x + y) \div (2 * y)
    ELSE (2 * (-x) + (-y)) \div (2 * (-y))

\* std::sqrt
Sqrt(x) ==
    IF x = NaN \/ x < 0 THEN NaN
    ELSE CHOOSE r \in 0..(IF x < 46341 THEN x ELSE 46341) :
            /\ r = 0 \/ (2 * r - 1) * (2 * r - 1) <= 4 * x
            /\ 4 * x < (2 * r + 1) * (2 * r + 1)

\* std::pow(base, t) for an integer base and t >= 0
Pow(base, t) == IntPow(base, t)

\* std::unordered_map<Tensor*, std::vector<double>> with no key
NoState == [p \in {} |-> <<>>]

NoOptimizer ==
    [kind |-> "none", parameters |-> <<>>, learning_rate |-> 0,
     momentum |-> 0, nesterov |-> FALSE, velocity |-> NoState,
     beta1 |-> 0, beta2 |-> 0, epsilon |-> 0, t |-> 0, m |-> NoState, v |-> NoState,
     alpha |-> 0, square_avg |-> NoState, sum_squares |-> NoState]

\* Optimizer(parameters, lr)
Optimizer(kind, parameters, lr) ==
    [NoOptimizer EXCEPT !.kind = kind, !.parameters = parameters, !.learning_rate = lr]

\* for (auto& param : parameters_) state[param.get()].resize(param->size(), 0.0)
ZeroState(T, parameters) ==
    [p \in {parameters[i] : i \in 1..Len(parameters)} |-> Fill(T[p].size, 0)]

SGD(T, parameters, lr, momentum, nesterov) ==
    [Optimizer("SGD", parameters, lr) EXCEPT
        !.momentum = momentum,
        !.nesterov = nesterov,
        !.velocity = IF momentum > 0 THEN ZeroState(T, parameters) ELSE NoState]

Adam(T, parameters, lr, beta1, beta2, epsilon) ==
    [Optimizer("Adam", parameters, lr) EXCEPT
        !.beta1 = beta1, !.beta2 = beta2, !.epsilon = epsilon, !.t = 0,
        !.m = ZeroState(T, parameters),
        !.v = ZeroState(T, parameters)]

RMSprop(T, parameters, lr, alpha, epsilon) ==
    [Optimizer("RMSprop", parameters, lr) EXCEPT
        !.alpha = alpha, !.epsilon = epsilon,
        !.square_avg = ZeroState(T, parameters)]

AdaGrad(T, parameters, lr, epsilon) ==
    [Optimizer("AdaGrad", parameters, lr) EXCEPT
        !.epsilon = epsilon,
        !.sum_squares = ZeroState(T, parameters)]

(***************************************************************************)
(* step(): the body of the loop over parameters_, for one parameter p.     *)
(* S is the pair of the optimizer object and the heap.                     *)
(***************************************************************************)
SGD_step_param_old_velocity(S, p) ==
    LET O == S.opt
        T == S.tensors
        grad == T[p].grad
        data == T[p].data
    IN  IF ~T[p].requires_grad THEN S
        ELSE IF O.momentum > 0
        THEN LET v == [i \in 1..T[p].size |->
                          O.momentum * O.velocity[p][i] + O.learning_rate * grad[i]]
             IN  [opt |-> [O EXCEPT !.velocity[p] = v],
                  tensors |-> [T EXCEPT ![p].data =
                      [i \in 1..T[p].size |->
                          IF O.nesterov
                          THEN data[i] - (O.momentum * O.velocity[p][i]
                                          + O.learning_rate * grad[i])
                          ELSE data[i] - O.velocity[p][i]]]]
        ELSE [opt |-> O,
              tensors |-> [T EXCEPT ![p].data =
                  [i \in 1..T[p].size |-> data[i] - O.learning_rate * grad[i]]]]

SGD_step_param(S, p) ==
    LET O == S.opt
        T == S.tensors
        grad == T[p].grad
        data == T[p].data
    IN  IF ~T[p].requires_grad THEN S
        ELSE IF O.momentum > 0
        THEN LET v == [i \in 1..T[p].size |->
                          O.momentum * O.velocity[p][i] + O.learning_rate * grad[i]]
             IN  [opt |-> [O EXCEPT !.velocity[p] = v],
                  tensors |-> [T EXCEPT ![p].data =
                      [i \in 1..T[p].size |->
                          IF O.nesterov
                          THEN data[i] - (O.momentum * v[i] + O.learning_rate * grad[i])
                          ELSE data[i] - v[i]]]]
        ELSE [opt |-> O,
              tensors |-> [T EXCEPT ![p].data =
                  [i \in 1..T[p].size |-> data[i] - O.learning_rate * grad[i]]]]

Adam_step_param_ticks(S, p) ==
    LET O == [S.opt EXCEPT !.t = @ + 1]
        T == S.tensors
        grad == T[p].grad
        data == T[p].data
    IN  IF ~T[p].requires_grad THEN S
        ELSE LET m == [i \in 1..T[p].size |->
                          O.beta1 * O.m[p][i] + (1 - O.beta1) * grad[i]]
                 v == [i \in 1..T[p].size |->
                          O.beta2 * O.v[p][i] + (1 - O.beta2) * grad[i] * grad[i]]
                 m_hat(i) == Quot(m[i], 1 - Pow(O.beta1, O.t))
                 v_hat(i) == Quot(v[i], 1 - Pow(O.beta2, O.t))
             IN  [opt |-> [O EXCEPT !.m[p] = m, !.v[p] = v],
                  tensors |-> [T EXCEPT ![p].data =
                      [i \in 1..T[p].size |->
                          Minus(data[i],
                                Quot(Times(O.learning_rate, m_hat(i)),
                                     Plus(Sqrt(v_hat(i)), O.epsilon)))]]]

Adam_step_param_uncorrected(S, p) ==
    LET O == S.opt
        T == S.tensors
        grad == T[p].grad
        data == T[p].data
    IN  IF ~T[p].requires_grad THEN S
        ELSE LET m == [i \in 1..T[p].size |->
                          O.beta1 * O.m[p][i] + (1 - O.beta1) * grad[i]]
                 v == [i \in 1..T[p].size |->
                          O.beta2 * O.v[p][i] + (1 - O.beta2) * grad[i] * grad[i]]
                 m_hat(i) == m[i]
                 v_hat(i) == Quot(v[i], 1 - Pow(O.beta2, O.t))
             IN  [opt |-> [O EXCEPT !.m[p] = m, !.v[p] = v],
                  tensors |-> [T EXCEPT ![p].data =
                      [i \in 1..T[p].size |->
                          Minus(data[i],
                                Quot(Times(O.learning_rate, m_hat(i)),
                                     Plus(Sqrt(v_hat(i)), O.epsilon)))]]]

\* t_ has been incremented by step() before the loop
Adam_step_param(S, p) ==
    LET O == S.opt
        T == S.tensors
        grad == T[p].grad
        data == T[p].data
    IN  IF ~T[p].requires_grad THEN S
        ELSE LET m == [i \in 1..T[p].size |->
                          O.beta1 * O.m[p][i] + (1 - O.beta1) * grad[i]]
                 v == [i \in 1..T[p].size |->
                          O.beta2 * O.v[p][i] + (1 - O.beta2) * grad[i] * grad[i]]
                 m_hat(i) == Quot(m[i], 1 - Pow(O.beta1, O.t))
                 v_hat(i) == Quot(v[i], 1 - Pow(O.beta2, O.t))
             IN  [opt |-> [O EXCEPT !.m[p] = m, !.v[p] = v],
                  tensors |-> [T EXCEPT ![p].data =
                      [i \in 1..T[p].size |->
                          Minus(data[i],
                                Quot(Times(O.learning_rate, m_hat(i)),
                                     Plus(Sqrt(v_hat(i)), O.epsilon)))]]]

RMSprop_step_param(S, p) ==
    LET O == S.opt
        T == S.tensors
        grad == T[p].grad
        data == T[p].data
    IN  IF ~T[p].requires_grad THEN S
        ELSE LET sq_avg == [i \in 1..T[p].size |->
                               O.alpha * O.square_avg[p][i]
                             + (1 - O.alpha) * grad[i] * grad[i]]
             IN  [opt |-> [O EXCEPT !.square_avg[p] = sq_avg],
                  tensors |-> [T EXCEPT ![p].data =
                      [i \in 1..T[p].size |->
                          Minus(data[i],
                                Quot(O.learning_rate * grad[i],
                                     Plus(Sqrt(sq_avg[i]), O.epsilon)))]]]

AdaGrad_step_param(S, p) ==
    LET O == S.opt
        T == S.tensors
        grad == T[p].grad
        data == T[p].data
    IN  IF ~T[p].requires_grad THEN S
        ELSE LET sum_sq == [i \in 1..T[p].size |->
                               O.sum_squares[p][i] + grad[i] * grad[i]]
             IN  [opt |-> [O EXCEPT !.sum_squares[p] = sum_sq],
                  tensors |-> [T EXCEPT ![p].data =
                      [i \in 1..T[p].size |->
                          Minus(data[i],
                                Quot(O.learning_rate * grad[i],
                                     Plus(Sqrt(sum_sq[i]), O.epsilon)))]]]

\* The virtual call: the loop body of the class the object is of
step_param(S, p) ==
    CASE S.opt.kind = "SGD" -> SGD_step_param(S, p)
      [] S.opt.kind = "Adam" -> Adam_step_param(S, p)
      [] S.opt.kind = "RMSprop" -> RMSprop_step_param(S, p)
      [] S.opt.kind = "AdaGrad" -> AdaGrad_step_param(S, p)

RECURSIVE step_loop_stops_at_frozen(_, _)
step_loop_stops_at_frozen(S, i) ==
    IF i > Len(S.opt.parameters) THEN S
    ELSE IF ~S.tensors[S.opt.parameters[i]].requires_grad THEN S
    ELSE step_loop_stops_at_frozen(step_param(S, S.opt.parameters[i]), i + 1)

\* for (auto& param : parameters_) { ... }
RECURSIVE step_loop(_, _)
step_loop(S, i) ==
    IF i > Len(S.opt.parameters) THEN S
    ELSE step_loop(step_param(S, S.opt.parameters[i]), i + 1)

Optimizer_step_clears_grads(O, T) ==
    LET S == step_loop([opt |-> IF O.kind = "Adam" THEN [O EXCEPT !.t = @ + 1] ELSE O,
                        tensors |-> T], 1)
    IN  [S EXCEPT !.tensors =
            [t \in 1..Len(@) |->
                IF \E i \in 1..Len(O.parameters) : O.parameters[i] = t
                THEN [@[t] EXCEPT !.grad = Fill(Len(@), 0)]
                ELSE @[t]]]

\* step(): Adam's starts with t_++
Optimizer_step(O, T) ==
    step_loop([opt |-> IF O.kind = "Adam" THEN [O EXCEPT !.t = @ + 1] ELSE O,
               tensors |-> T], 1)

(***************************************************************************)
(* step() over fractional numbers.  A double is a multiple of 1/Unit, and  *)
(* every product, quotient, root and power is rounded to the nearest       *)
(* multiple as the code's operations are rounded to the nearest double.    *)
(* The root is taken to 1/100.                                             *)
(***************************************************************************)
Digits == 3

Unit == 10 ^ Digits

Mul(x, y) == IF x = NaN \/ y = NaN THEN NaN ELSE Quot(x * y, Unit)

Div(x, y) == IF x = NaN \/ y = NaN THEN NaN ELSE Quot(x * Unit, y)

Root(x) == IF x = NaN \/ x < 0 THEN NaN ELSE 10 * Sqrt(x * (Unit \div 100))

\* std::pow(beta, t), by squaring
RECURSIVE PowT(_, _)
PowT(beta, t) ==
    IF t = 0 THEN Unit
    ELSE IF t % 2 = 0 THEN Mul(PowT(beta, t \div 2), PowT(beta, t \div 2))
    ELSE Mul(beta, PowT(beta, t - 1))

SGD_step_scaled_ascent(S, p) ==
    [opt |-> S.opt,
     tensors |-> [S.tensors EXCEPT ![p].data =
         [i \in 1..Len(@) |-> @[i] + Mul(S.opt.learning_rate, S.tensors[p].grad[i])]]]

SGD_step_scaled(S, p) ==
    LET O == S.opt
        T == S.tensors
        grad == T[p].grad
        data == T[p].data
    IN  IF ~T[p].requires_grad THEN S
        ELSE IF O.momentum > 0
        THEN LET v == [i \in 1..T[p].size |->
                          Mul(O.momentum, O.velocity[p][i]) + Mul(O.learning_rate, grad[i])]
             IN  [opt |-> [O EXCEPT !.velocity[p] = v],
                  tensors |-> [T EXCEPT ![p].data =
                      [i \in 1..T[p].size |->
                          IF O.nesterov
                          THEN data[i] - (Mul(O.momentum, v[i]) + Mul(O.learning_rate, grad[i]))
                          ELSE data[i] - v[i]]]]
        ELSE [opt |-> O,
              tensors |-> [T EXCEPT ![p].data =
                  [i \in 1..T[p].size |-> data[i] - Mul(O.learning_rate, grad[i])]]]

Adam_step_scaled(S, p) ==
    LET O == S.opt
        T == S.tensors
        grad == T[p].grad
        data == T[p].data
    IN  IF ~T[p].requires_grad THEN S
        ELSE LET m == [i \in 1..T[p].size |->
                          Mul(O.beta1, O.m[p][i]) + Mul(Unit - O.beta1, grad[i])]
                 v == [i \in 1..T[p].size |->
                          Mul(O.beta2, O.v[p][i]) + Mul(Mul(Unit - O.beta2, grad[i]), grad[i])]
                 m_hat == [i \in 1..T[p].size |-> Div(m[i], Unit - PowT(O.beta1, O.t))]
                 v_hat == [i \in 1..T[p].size |-> Div(v[i], Unit - PowT(O.beta2, O.t))]
             IN  [opt |-> [O EXCEPT !.m[p] = m, !.v[p] = v],
                  tensors |-> [T EXCEPT ![p].data =
                      [i \in 1..T[p].size |->
                          Minus(data[i],
                                Div(Mul(O.learning_rate, m_hat[i]),
                                    Plus(Root(v_hat[i]), O.epsilon)))]]]

RMSprop_step_scaled(S, p) ==
    LET O == S.opt
        T == S.tensors
        grad == T[p].grad
        data == T[p].data
    IN  IF ~T[p].requires_grad THEN S
        ELSE LET sq_avg == [i \in 1..T[p].size |->
                               Mul(O.alpha, O.square_avg[p][i])
                             + Mul(Mul(Unit - O.alpha, grad[i]), grad[i])]
             IN  [opt |-> [O EXCEPT !.square_avg[p] = sq_avg],
                  tensors |-> [T EXCEPT ![p].data =
                      [i \in 1..T[p].size |->
                          Minus(data[i],
                                Div(Mul(O.learning_rate, grad[i]),
                                    Plus(Root(sq_avg[i]), O.epsilon)))]]]

AdaGrad_step_scaled(S, p) ==
    LET O == S.opt
        T == S.tensors
        grad == T[p].grad
        data == T[p].data
    IN  IF ~T[p].requires_grad THEN S
        ELSE LET sum_sq == [i \in 1..T[p].size |->
                               O.sum_squares[p][i] + Mul(grad[i], grad[i])]
             IN  [opt |-> [O EXCEPT !.sum_squares[p] = sum_sq],
                  tensors |-> [T EXCEPT ![p].data =
                      [i \in 1..T[p].size |->
                          Minus(data[i],
                                Div(Mul(O.learning_rate, grad[i]),
                                    Plus(Root(sum_sq[i]), O.epsilon)))]]]

step_param_scaled(S, p) ==
    CASE S.opt.kind = "SGD" -> SGD_step_scaled(S, p)
      [] S.opt.kind = "Adam" -> Adam_step_scaled(S, p)
      [] S.opt.kind = "RMSprop" -> RMSprop_step_scaled(S, p)
      [] S.opt.kind = "AdaGrad" -> AdaGrad_step_scaled(S, p)

RECURSIVE step_loop_scaled(_, _)
step_loop_scaled(S, i) ==
    IF i > Len(S.opt.parameters) THEN S
    ELSE step_loop_scaled(step_param_scaled(S, S.opt.parameters[i]), i + 1)

Optimizer_step_scaled(O, T) ==
    step_loop_scaled([opt |-> IF O.kind = "Adam" THEN [O EXCEPT !.t = @ + 1] ELSE O,
                      tensors |-> T], 1)

Optimizer_zero_grad_none(O, T, i) == T

\* Optimizer::zero_grad(): param->zero_grad() for every parameter
RECURSIVE Optimizer_zero_grad(_, _, _)
Optimizer_zero_grad(O, T, i) ==
    IF i > Len(O.parameters) THEN T
    ELSE Optimizer_zero_grad(O, zero_grad(T, O.parameters[i]), i + 1)

(***************************************************************************)
(* Learning-rate schedulers.                                               *)
(***************************************************************************)
NoScheduler ==
    [kind |-> "none", initial_lr |-> 0, step_size |-> 0, gamma |-> 0,
     T_max |-> 0, eta_min |-> 0]

\* LRScheduler(optimizer): initial_lr_(optimizer->get_learning_rate())
LRScheduler(kind, O) ==
    [NoScheduler EXCEPT !.kind = kind, !.initial_lr = O.learning_rate]

StepLR(O, step_size, gamma) ==
    [LRScheduler("StepLR", O) EXCEPT !.step_size = step_size, !.gamma = gamma]

ExponentialLR(O, gamma) ==
    [LRScheduler("ExponentialLR", O) EXCEPT !.gamma = gamma]

CosineAnnealingLR(O, T_max, eta_min) ==
    [LRScheduler("CosineAnnealingLR", O) EXCEPT !.T_max = T_max, !.eta_min = eta_min]

\* std::cos(M_PI * epoch / T_max) to the nearest integer, for epoch >= 0 and T_max > 0:
\* 1 within a third of a half-turn of an even multiple of pi, -1 of an odd one
CosPi(epoch, T_max) ==
    LET e == epoch % (2 * T_max)
    IN  IF 3 * e <= T_max \/ 3 * e >= 5 * T_max THEN 1
        ELSE IF 2 * T_max <= 3 * e /\ 3 * e <= 4 * T_max THEN -1
        ELSE 0

\* Each gives the optimizer object after step(epoch)
StepLR_step(Sc, O, epoch) ==
    IF epoch % Sc.step_size = 0 /\ epoch > 0
    THEN [O EXCEPT !.learning_rate = @ * Sc.gamma]
    ELSE O

ExponentialLR_step_from_current(Sc, O, epoch) ==
    [O EXCEPT !.learning_rate = @ * Pow(Sc.gamma, epoch)]

ExponentialLR_step(Sc, O, epoch) ==
    [O EXCEPT !.learning_rate = Sc.initial_lr * Pow(Sc.gamma, epoch)]

CosineAnnealingLR_step(Sc, O, epoch) ==
    [O EXCEPT !.learning_rate =
        Sc.eta_min + Quot((Sc.initial_lr - Sc.eta_min) * (1 + CosPi(epoch, Sc.T_max)), 2)]

LRScheduler_step(Sc, O, epoch) ==
    CASE Sc.kind = "StepLR" -> StepLR_step(Sc, O, epoch)
      [] Sc.kind = "ExponentialLR" -> ExponentialLR_step(Sc, O, epoch)
      [] Sc.kind = "CosineAnnealingLR" -> CosineAnnealingLR_step(Sc, O, epoch)

(***************************************************************************)
(* The calls on the optimizer and on the scheduler as actions.  One        *)
(* optimizer and one scheduler are constructed at most.                    *)
(***************************************************************************)
OptimizerCall(call, values, heap, optimizer, scheduler, steps) ==
    /\ pc = "idle"
    /\ pre' = tensors
    /\ tensors' = heap
    /\ last' = Call(call, 0, 0, <<>>, values, FALSE, 0)
    /\ pc' = "idle" /\ root' = 0 /\ topo' = <<>> /\ it' = 0 /\ ran' = <<>>
    /\ opt' = optimizer
    /\ sched' = scheduler
    /\ nstep' = steps
    /\ UNCHANGED <<nback, objects>>

NewSGD(parameters, lr, momentum, nesterov) ==
    /\ opt.kind = "none"
    /\ OptimizerCall("SGD", <<>>, tensors,
                     SGD(tensors, parameters, lr, momentum, nesterov), sched, nstep)

NewAdam(parameters, lr, beta1, beta2, epsilon) ==
    /\ opt.kind = "none"
    /\ OptimizerCall("Adam", <<>>, tensors,
                     Adam(tensors, parameters, lr, beta1, beta2, epsilon), sched, nstep)

NewRMSprop(parameters, lr, alpha, epsilon) ==
    /\ opt.kind = "none"
    /\ OptimizerCall("RMSprop", <<>>, tensors,
                     RMSprop(tensors, parameters, lr, alpha, epsilon), sched, nstep)

NewAdaGrad(parameters, lr, epsilon) ==
    /\ opt.kind = "none"
    /\ OptimizerCall("AdaGrad", <<>>, tensors,
                     AdaGrad(tensors, parameters, lr, epsilon), sched, nstep)

step ==
    /\ opt.kind # "none"
    /\ LET S == Optimizer_step(opt, tensors)
       IN  OptimizerCall("step", <<>>, S.tensors, S.opt, sched, nstep + 1)

\* step() of an optimizer whose numbers are multiples of 1/Unit
step_scaled ==
    /\ opt.kind # "none"
    /\ LET S == Optimizer_step_scaled(opt, tensors)
       IN  OptimizerCall("step", <<>>, S.tensors, S.opt, sched, nstep + 1)

OptimizerZeroGrad ==
    /\ opt.kind # "none"
    /\ OptimizerCall("optimizer.zero_grad", <<>>,
                     Optimizer_zero_grad(opt, tensors, 1), opt, sched, nstep)

NewStepLR(step_size, gamma) ==
    /\ opt.kind # "none" /\ sched.kind = "none"
    /\ OptimizerCall("StepLR", <<>>, tensors, opt, StepLR(opt, step_size, gamma), nstep)

NewExponentialLR(gamma) ==
    /\ opt.kind # "none" /\ sched.kind = "none"
    /\ OptimizerCall("ExponentialLR", <<>>, tensors, opt, ExponentialLR(opt, gamma), nstep)

NewCosineAnnealingLR(T_max, eta_min) ==
    /\ opt.kind # "none" /\ sched.kind = "none"
    /\ OptimizerCall("CosineAnnealingLR", <<>>, tensors, opt,
                     CosineAnnealingLR(opt, T_max, eta_min), nstep)

scheduler_step(epoch) ==
    /\ sched.kind # "none"
    /\ OptimizerCall("scheduler.step", <<epoch>>, tensors,
                     LRScheduler_step(sched, opt, epoch), sched, nstep)

(***************************************************************************)
(* Specifications.  Bounds and the sets the calls' arguments are drawn     *)
(* from.                                                                   *)
(***************************************************************************)
MaxTensors == 3
MaxBackward == 1

Shapes == {<<>>, <<0>>, <<1>>, <<2>>, <<1, 2>>, <<2, 1>>}
ZerosShapes == {<<>>, <<0>>, <<1, 2>>}
OnesShapes == {<<2, 1>>}
DataVectors == {<<>>, <<3>>, <<-1, 2>>}
Scalars == {2}
Exponents == {2}

Idle ==
    /\ tensors = <<>>
    /\ last = Call("none", 0, 0, <<>>, <<>>, FALSE, 0)
    /\ pc = "idle" /\ root = 0 /\ topo = <<>> /\ it = 0 /\ ran = <<>>
    /\ pre = <<>>
    /\ nback = 0
    /\ opt = NoOptimizer /\ sched = NoScheduler /\ nstep = 0
    /\ NoObjects

Init == Idle

Room(k) == Len(tensors) + k <= MaxTensors

Next ==
    \/ Room(1) /\ \E sh \in ZerosShapes, rg \in BOOLEAN : zeros(sh, rg)
    \/ Room(1) /\ \E sh \in OnesShapes, rg \in BOOLEAN : ones(sh, rg)
    \/ Room(1) /\ \E sh \in Shapes, rg \in BOOLEAN, v \in DataVectors : from_data(v, sh, rg)
    \/ Room(1) /\ \E a, b \in Ids : add(a, b)
    \/ Room(1) /\ \E a, b \in Ids : multiply(a, b)
    \/ Room(1) /\ \E a \in Ids, c \in Scalars : multiply_scalar(a, c)
    \/ Room(1) /\ \E a \in Ids, e \in Exponents : pow(a, e)
    \/ Room(1) /\ \E a, b \in Ids : matmul(a, b)
    \/ Room(1) /\ \E a \in Ids : sum(a)
    \/ Room(2) /\ \E a \in Ids : mean(a)
    \/ Room(1) /\ \E a \in Ids : relu(a)
    \/ Room(1) /\ \E a \in Ids : sigmoid(a)
    \/ Room(1) /\ \E a \in Ids : tanh_(a)
    \/ Room(1) /\ \E a \in Ids, sh \in Shapes : reshape(a, sh)
    \/ Room(1) /\ \E a \in Ids : flatten(a)
    \/ \E a \in Ids : ZeroGrad(a)
    \/ nback < MaxBackward /\ \E a \in Ids : backward(a)
    \/ \E a \in Ids : backward_fn(a)

Spec == Init /\ [][Next]_vars

(***************************************************************************)
(* GraphSpec: graphs of add and multiply over the one-element leaves       *)
(* x = 2 and y = 3, then backward() from any tensor, and zero_grad() on    *)
(* any tensor once it has returned.                                        *)
(***************************************************************************)
GraphMaxTensors == 5
GraphMaxBackward == 1

GraphInit ==
    /\ \E ry \in BOOLEAN :
          tensors = <<TensorData(<<2>>, <<1>>, TRUE), TensorData(<<3>>, <<1>>, ry)>>
    /\ last = Call("none", 0, 0, <<>>, <<>>, FALSE, 0)
    /\ pc = "idle" /\ root = 0 /\ topo = <<>> /\ it = 0 /\ ran = <<>>
    /\ pre = <<>>
    /\ nback = 0
    /\ opt = NoOptimizer /\ sched = NoScheduler /\ nstep = 0
    /\ NoObjects

\* The graph is built before the first backward()
GraphRoom == Len(tensors) < GraphMaxTensors /\ nback = 0

GraphNext ==
    \/ GraphRoom /\ \E a, b \in Ids : add(a, b)
    \/ GraphRoom /\ \E a, b \in Ids : multiply(a, b)
    \/ nback < GraphMaxBackward /\ \E a \in Ids : backward(a)
    \/ \E a \in Ids : backward_fn(a)
    \/ last.call = "backward" /\ \E a \in Ids : ZeroGrad(a)

GraphSpec == GraphInit /\ [][GraphNext]_vars

(***************************************************************************)
(* MatmulSpec: A (m x k) and B (k x n) with distinct entries, tensors      *)
(* built from them by matmul and multiply, then backward() from any        *)
(* tensor, which may be called again on the grads the first call left.     *)
(***************************************************************************)
MaxDim == 2
MatmulMaxTensors == 4
MatmulMaxBackward == 2

EntriesA(len) == [p \in 1..len |-> p + 1]
EntriesB(len) == [p \in 1..len |-> p * p - 2]

MatmulInit ==
    /\ \E m, k, n \in 1..MaxDim, ra, rb \in BOOLEAN :
          tensors = <<TensorData(EntriesA(m * k), <<m, k>>, ra),
                      TensorData(EntriesB(k * n), <<k, n>>, rb)>>
    /\ last = Call("none", 0, 0, <<>>, <<>>, FALSE, 0)
    /\ pc = "idle" /\ root = 0 /\ topo = <<>> /\ it = 0 /\ ran = <<>>
    /\ pre = <<>>
    /\ nback = 0
    /\ opt = NoOptimizer /\ sched = NoScheduler /\ nstep = 0
    /\ NoObjects

MatmulRoom == Len(tensors) < MatmulMaxTensors /\ nback = 0

MatmulNext ==
    \/ MatmulRoom /\ \E a, b \in Ids : matmul(a, b)
    \/ MatmulRoom /\ \E a, b \in Ids : multiply(a, b)
    \/ nback < MatmulMaxBackward /\ \E a \in Ids : backward(a)
    \/ \E a \in Ids : backward_fn(a)

MatmulSpec == MatmulInit /\ [][MatmulNext]_vars

(***************************************************************************)
(* SeedSpec: two-element leaves x = (2, 3) and y = (5, 7), tensors built   *)
(* from them by add, multiply and sum, then backward() from any tensor,    *)
(* non-scalar ones included, and once more on the grads that call left.    *)
(***************************************************************************)
SeedMaxTensors == 4
SeedMaxBackward == 2

SeedInit ==
    /\ \E rx, ry \in BOOLEAN :
          tensors = <<TensorData(<<2, 3>>, <<2>>, rx), TensorData(<<5, 7>>, <<2>>, ry)>>
    /\ last = Call("none", 0, 0, <<>>, <<>>, FALSE, 0)
    /\ pc = "idle" /\ root = 0 /\ topo = <<>> /\ it = 0 /\ ran = <<>>
    /\ pre = <<>>
    /\ nback = 0
    /\ opt = NoOptimizer /\ sched = NoScheduler /\ nstep = 0
    /\ NoObjects

SeedRoom == Len(tensors) < SeedMaxTensors /\ nback = 0

SeedNext ==
    \/ SeedRoom /\ \E a, b \in Ids : add(a, b)
    \/ SeedRoom /\ \E a, b \in Ids : multiply(a, b)
    \/ SeedRoom /\ \E a \in Ids : sum(a)
    \/ nback < SeedMaxBackward /\ \E a \in Ids : backward(a)
    \/ \E a \in Ids : backward_fn(a)

SeedSpec == SeedInit /\ [][SeedNext]_vars

(***************************************************************************)
(* ReshapeSpec: a two-element tensor t = (2, 3), views of it built by      *)
(* reshape and flatten, products and sums of them, then backward() from    *)
(* any one-element tensor.                                                 *)
(***************************************************************************)
ReshapeMaxTensors == 5
ReshapeMaxBackward == 1

ReshapeShapes == {<<2>>, <<1, 2>>, <<2, 1>>}

ReshapeInit ==
    /\ \E sh \in {<<2>>, <<1, 2>>}, rg \in BOOLEAN :
          tensors = <<TensorData(<<2, 3>>, sh, rg)>>
    /\ last = Call("none", 0, 0, <<>>, <<>>, FALSE, 0)
    /\ pc = "idle" /\ root = 0 /\ topo = <<>> /\ it = 0 /\ ran = <<>>
    /\ pre = <<>>
    /\ nback = 0
    /\ opt = NoOptimizer /\ sched = NoScheduler /\ nstep = 0
    /\ NoObjects

ReshapeRoom == Len(tensors) < ReshapeMaxTensors /\ nback = 0

ReshapeNext ==
    \/ ReshapeRoom /\ \E a \in Ids, sh \in ReshapeShapes : reshape(a, sh)
    \/ ReshapeRoom /\ \E a \in Ids : flatten(a)
    \/ ReshapeRoom /\ \E a, b \in Ids : multiply(a, b)
    \/ ReshapeRoom /\ \E a \in Ids : sum(a)
    \/ nback < ReshapeMaxBackward /\ \E a \in Ids : tensors[a].size = 1 /\ backward(a)
    \/ \E a \in Ids : backward_fn(a)

ReshapeSpec == ReshapeInit /\ [][ReshapeNext]_vars

(***************************************************************************)
(* OptimSpec: the parameters w = (4, -1) and b = (3, 5), the constant      *)
(* c = (2, 0) and the graph w * c + b built from them; an optimizer of     *)
(* any class over none, one or both of the parameters; then backward()     *)
(* from the graph's root, step() and the optimizer's zero_grad() in any    *)
(* order.  b may be frozen (requires_grad false).                          *)
(***************************************************************************)
OptimMaxBackward == 2
OptimMaxSteps == 2

ParameterLists == {<<>>, <<1>>, <<1, 2>>, <<2, 1>>}
Rates == {2}
Momenta == {0, 2}
Betas == {0, 1, 2}
Alphas == {0, 1}
Epsilons == {1}

OptimHeap(rb) ==
    LET T3 == <<TensorData(<<4, -1>>, <<2>>, TRUE),
                TensorData(<<3, 5>>, <<2>>, rb),
                TensorData(<<2, 0>>, <<2>>, FALSE)>>
        T4 == Append(T3, multiply_result(T3, 1, 3))
    IN  Append(T4, add_result(T4, 4, 2))

OptimInit ==
    /\ \E rb \in BOOLEAN : tensors = OptimHeap(rb)
    /\ last = Call("none", 0, 0, <<>>, <<>>, FALSE, 0)
    /\ pc = "idle" /\ root = 0 /\ topo = <<>> /\ it = 0 /\ ran = <<>>
    /\ pre = <<>>
    /\ nback = 0
    /\ opt = NoOptimizer /\ sched = NoScheduler /\ nstep = 0
    /\ NoObjects

OptimNext ==
    \/ \E ps \in ParameterLists, lr \in Rates, mo \in Momenta, ne \in BOOLEAN :
          NewSGD(ps, lr, mo, ne)
    \/ \E ps \in ParameterLists, lr \in Rates, b1 \in Betas, b2 \in Betas, ep \in Epsilons :
          NewAdam(ps, lr, b1, b2, ep)
    \/ \E ps \in ParameterLists, lr \in Rates, al \in Alphas, ep \in Epsilons :
          NewRMSprop(ps, lr, al, ep)
    \/ \E ps \in ParameterLists, lr \in Rates, ep \in Epsilons : NewAdaGrad(ps, lr, ep)
    \/ nback < OptimMaxBackward /\ opt.kind # "none" /\ backward(Len(tensors))
    \/ \E a \in Ids : backward_fn(a)
    \/ nstep < OptimMaxSteps /\ step
    \/ nback > 0 /\ OptimizerZeroGrad

OptimSpec == OptimInit /\ [][OptimNext]_vars

(***************************************************************************)
(* FrameSpec: every kind of call next to every other.  A parameter w = 2   *)
(* and a target y = 1 of shape [1,1]; forward operations and the loss      *)
(* functions on them, backward() from the tensor allocated last,           *)
(* zero_grad(), an optimizer of any class over w with step() and           *)
(* zero_grad(), and a scheduler of any class with step(epoch).             *)
(***************************************************************************)
FrameMaxTensors == 3
FrameMaxBackward == 1
FrameMaxSteps == 1
FrameMaxEpoch == 1
FrameMaxRate == 2

FrameInit ==
    /\ tensors = <<TensorData(<<2>>, <<1, 1>>, TRUE), TensorData(<<1>>, <<1, 1>>, FALSE)>>
    /\ last = Call("none", 0, 0, <<>>, <<>>, FALSE, 0)
    /\ pc = "idle" /\ root = 0 /\ topo = <<>> /\ it = 0 /\ ran = <<>>
    /\ pre = <<>>
    /\ nback = 0
    /\ opt = NoOptimizer /\ sched = NoScheduler /\ nstep = 0
    /\ NoObjects

FrameRoom == Len(tensors) < FrameMaxTensors

FrameNext ==
    \/ FrameRoom /\ \E a, b \in Ids : add(a, b)
    \/ FrameRoom /\ \E a, b \in Ids : multiply(a, b)
    \/ FrameRoom /\ \E a \in Ids, c \in Scalars : multiply_scalar(a, c)
    \/ FrameRoom /\ \E a \in Ids, e \in Exponents : pow(a, e)
    \/ FrameRoom /\ \E a, b \in Ids : matmul(a, b)
    \/ FrameRoom /\ \E a \in Ids : sum(a)
    \/ FrameRoom /\ \E a \in Ids : mean(a)
    \/ FrameRoom /\ \E a \in Ids : relu(a)
    \/ FrameRoom /\ \E a \in Ids : sigmoid(a)
    \/ FrameRoom /\ \E a \in Ids : tanh_(a)
    \/ FrameRoom /\ \E a \in Ids, sh \in {<<1>>, <<1, 1>>, <<2>>} : reshape(a, sh)
    \/ FrameRoom /\ \E a \in Ids : flatten(a)
    \/ Len(tensors) <= FrameMaxTensors /\ \E a \in Ids : MSELoss(a, 2)
    \/ Len(tensors) <= FrameMaxTensors /\ \E a \in Ids : CrossEntropyLoss(a, 2)
    \/ nback < FrameMaxBackward /\ backward(Len(tensors))
    \/ \E a \in Ids : backward_fn(a)
    \/ last.call = "backward" /\ ZeroGrad(Len(tensors))
    \/ \E mo \in Momenta : NewSGD(<<1>>, 2, mo, FALSE)
    \/ NewAdam(<<1>>, 2, 2, 2, 1)
    \/ NewRMSprop(<<1>>, 2, 0, 1)
    \/ NewAdaGrad(<<1>>, 2, 1)
    \/ nstep < FrameMaxSteps /\ step
    \/ nback > 0 /\ OptimizerZeroGrad
    \/ NewStepLR(1, 2)
    \/ NewExponentialLR(2)
    \/ NewCosineAnnealingLR(2, 0)
    \/ opt.learning_rate <= FrameMaxRate /\ \E e \in 0..FrameMaxEpoch : scheduler_step(e)

FrameSpec == FrameInit /\ [][FrameNext]_vars

(***************************************************************************)
(* SchedSpec: an SGD over one parameter, a scheduler of any class over it  *)
(* and step(epoch) for epochs in any order, repeated or skipped.           *)
(***************************************************************************)
SchedMaxEpoch == 3
SchedMaxRate == 40

InitialRates == {2, 4}
StepSizes == {1, 2}
Gammas == {2, 3}
TMaxes == {1, 2}
EtaMins == {0, 2}

SchedInit ==
    /\ tensors = <<TensorData(<<2>>, <<1>>, TRUE)>>
    /\ last = Call("none", 0, 0, <<>>, <<>>, FALSE, 0)
    /\ pc = "idle" /\ root = 0 /\ topo = <<>> /\ it = 0 /\ ran = <<>>
    /\ pre = <<>>
    /\ nback = 0
    /\ opt = NoOptimizer /\ sched = NoScheduler /\ nstep = 0
    /\ NoObjects

SchedNext ==
    \/ \E lr \in InitialRates : NewSGD(<<1>>, lr, 0, FALSE)
    \/ \E ss \in StepSizes, ga \in Gammas : NewStepLR(ss, ga)
    \/ \E ga \in Gammas : NewExponentialLR(ga)
    \/ \E tm \in TMaxes, em \in EtaMins : NewCosineAnnealingLR(tm, em)
    \/ opt.learning_rate <= SchedMaxRate /\ \E e \in 0..SchedMaxEpoch : scheduler_step(e)

SchedSpec == SchedInit /\ [][SchedNext]_vars

(***************************************************************************)
(* TrainSpec: the training loop of test_optimizers over two parameters.    *)
(* Per cycle: a fresh loss is built from the parameters, then              *)
(* optimizer->zero_grad(), loss->backward(), optimizer->step(); and the    *)
(* same loop with a second zero_grad() between backward() and step().      *)
(***************************************************************************)
TrainMaxTensors == 7
TrainMaxCycles == 3

ForwardCalls == {"pow", "multiply", "add"}

\* The loop is about to build the loss of the next cycle
AtLoopHead == pc = "idle" /\ last.call \in {"SGD", "step"}

\* The loss of this cycle is being built: its last tensor is the newest one
Building == pc = "idle" /\ last.call \in ForwardCalls /\ nback = nstep

TrainInit ==
    /\ tensors = <<TensorData(<<3>>, <<1>>, TRUE), TensorData(<<2>>, <<1>>, TRUE)>>
    /\ last = Call("none", 0, 0, <<>>, <<>>, FALSE, 0)
    /\ pc = "idle" /\ root = 0 /\ topo = <<>> /\ it = 0 /\ ran = <<>>
    /\ pre = <<>>
    /\ nback = 0
    /\ opt = NoOptimizer /\ sched = NoScheduler /\ nstep = 0
    /\ NoObjects

TrainNext ==
    \/ \E ps \in {<<1>>, <<1, 2>>}, mo \in Momenta, ne \in BOOLEAN : NewSGD(ps, 1, mo, ne)
    \/ AtLoopHead /\ nstep < TrainMaxCycles /\ Len(tensors) < TrainMaxTensors /\ pow(1, 2)
    \/ AtLoopHead /\ nstep < TrainMaxCycles /\ Len(tensors) < TrainMaxTensors
          /\ \E a \in 1..2 : multiply(a, 2)
    \/ Building /\ Len(tensors) < TrainMaxTensors
          /\ \E b \in 1..2 : add(Len(tensors), b)
    \/ Building /\ OptimizerZeroGrad
    \/ pc = "idle" /\ last.call = "optimizer.zero_grad" /\ nback = nstep
          /\ backward(Len(tensors))
    \/ \E a \in Ids : backward_fn(a)
    \/ pc = "idle" /\ last.call = "backward" /\ OptimizerZeroGrad
    \/ pc = "idle" /\ last.call = "backward" /\ step
    \/ pc = "idle" /\ last.call = "optimizer.zero_grad" /\ nback = nstep + 1 /\ step

TrainSpec == TrainInit /\ [][TrainNext]_vars

(***************************************************************************)
(* DescentSpec: test_optimizers.  x = 5.0 and, for one of SGD, Adam,       *)
(* RMSprop and AdaGrad with lr = 0.1 and the default parameters, the loop  *)
(* loss = x->pow(2); zero_grad(); backward(); step().  Numbers are         *)
(* multiples of 1/Unit; epsilon = 1e-8 is 0 at that resolution.            *)
(***************************************************************************)
DescentSteps == 50

Tenth == Unit \div 10
BetaOne == 9 * (Unit \div 10)
BetaTwo == Unit - Unit \div 1000
AlphaDefault == 99 * (Unit \div 100)

Constructors == {"SGD", "Adam", "RMSprop", "AdaGrad"}

DescentInit ==
    /\ tensors = <<TensorData(<<5 * Unit>>, <<1>>, TRUE)>>
    /\ last = Call("none", 0, 0, <<>>, <<>>, FALSE, 0)
    /\ pc = "idle" /\ root = 0 /\ topo = <<>> /\ it = 0 /\ ran = <<>>
    /\ pre = <<>>
    /\ nback = 0
    /\ opt = NoOptimizer /\ sched = NoScheduler /\ nstep = 0
    /\ NoObjects

DescentNext ==
    \/ NewSGD(<<1>>, Tenth, 0, FALSE)
    \/ NewAdam(<<1>>, Tenth, BetaOne, BetaTwo, 0)
    \/ NewRMSprop(<<1>>, Tenth, AlphaDefault, 0)
    \/ NewAdaGrad(<<1>>, Tenth, 0)
    \/ pc = "idle" /\ last.call \in Constructors \cup {"step"} /\ nstep < DescentSteps
          /\ pow(1, 2)
    \/ pc = "idle" /\ last.call = "pow" /\ OptimizerZeroGrad
    \/ pc = "idle" /\ last.call = "optimizer.zero_grad" /\ backward(Len(tensors))
    \/ \E a \in Ids : backward_fn(a)
    \/ pc = "idle" /\ last.call = "backward" /\ step_scaled

DescentSpec == DescentInit /\ [][DescentNext]_vars

(***************************************************************************)
(* ModelSerializer.  A model is the vector Sequential::parameters()        *)
(* returns: its parameter tensors in layer order.  A file holds the        *)
(* parameter count and, per parameter, the shape and the data.             *)
(***************************************************************************)
Models == <<<<1, 2, 3>>, <<4, 5, 6>>, <<7, 8>>>>

Paths == 1..2

\* What save() writes
ModelSerializer_save(T, params) ==
    [exists |-> TRUE,
     num_params |-> Len(params),
     params |-> [i \in 1..Len(params) |->
                    [shape |-> T[params[i]].shape,
                     data_size |-> T[params[i]].size,
                     data |-> T[params[i]].data]]]

load_loop_copies_nothing(T, params, F, i) == [tensors |-> T, ok |-> TRUE]

\* for (auto& param : params) { read shape; verify; read data; copy }
RECURSIVE load_loop(_, _, _, _)
load_loop(T, params, F, i) ==
    IF i > Len(params) THEN [tensors |-> T, ok |-> TRUE]
    ELSE IF F.params[i].shape # T[params[i]].shape
    THEN [tensors |-> T, ok |-> FALSE]
    ELSE load_loop([T EXCEPT ![params[i]].data =
                       [j \in 1..Len(@) |->
                           IF j <= F.params[i].data_size THEN F.params[i].data[j] ELSE @[j]]],
                   params, F, i + 1)

ModelSerializer_load(T, params, F) ==
    IF ~F.exists THEN [tensors |-> T, ok |-> FALSE]
    ELSE IF F.num_params # Len(params) THEN [tensors |-> T, ok |-> FALSE]
    ELSE load_loop(T, params, F, 1)

\* A call on an object outside the engine; values holds what it returned
ObjectCall(call, this, other, values, heap) ==
    /\ pc = "idle"
    /\ pre' = tensors
    /\ tensors' = heap
    /\ last' = Call(call, this, other, <<>>, values, FALSE, 0)
    /\ pc' = "idle" /\ root' = 0 /\ topo' = <<>> /\ it' = 0 /\ ran' = <<>>
    /\ UNCHANGED <<nback, opt, sched, nstep>>

Bit(b) == IF b THEN 1 ELSE 0

save(model, filepath) ==
    /\ files' = [files EXCEPT ![filepath] = ModelSerializer_save(tensors, Models[model])]
    /\ ObjectCall("save", model, filepath, <<1>>, tensors)
    /\ UNCHANGED <<loader, dataset, cycle>>

load(model, filepath) ==
    /\ LET R == ModelSerializer_load(tensors, Models[model], files[filepath])
       IN  ObjectCall("load", model, filepath, <<Bit(R.ok)>>, R.tensors)
    /\ UNCHANGED objects

(***************************************************************************)
(* SerialSpec: three models.  The second has as many parameters as the     *)
(* first, each with the first's shape or with another one; the third has   *)
(* one parameter less.  Any model is saved to and loaded from any path.    *)
(***************************************************************************)
OtherShapes == {<<<<2>>, <<1, 2>>, <<1>>>>,
                <<<<1, 2>>, <<1, 2>>, <<1>>>>,
                <<<<2>>, <<2, 1>>, <<1>>>>,
                <<<<2>>, <<1, 2>>, <<1, 1>>>>,
                <<<<2>>, <<2, 1>>, <<1, 1>>>>}

SerialInit ==
    /\ \E sh \in OtherShapes :
          tensors = <<TensorData(<<1, 2>>, <<2>>, TRUE),
                      TensorData(<<3, 4>>, <<1, 2>>, TRUE),
                      TensorData(<<5>>, <<1>>, TRUE),
                      TensorData(<<6, 7>>, sh[1], TRUE),
                      TensorData(<<8, 9>>, sh[2], TRUE),
                      TensorData(<<10>>, sh[3], TRUE),
                      TensorData(<<11, 12>>, <<2>>, TRUE),
                      TensorData(<<13, 14>>, <<1, 2>>, TRUE)>>
    /\ last = Call("none", 0, 0, <<>>, <<>>, FALSE, 0)
    /\ pc = "idle" /\ root = 0 /\ topo = <<>> /\ it = 0 /\ ran = <<>>
    /\ pre = <<>>
    /\ nback = 0
    /\ opt = NoOptimizer /\ sched = NoScheduler /\ nstep = 0
    /\ NoObjects

SerialNext ==
    \/ \E m \in 1..Len(Models), f \in Paths : save(m, f)
    \/ \E m \in 1..Len(Models), f \in Paths : load(m, f)

SerialSpec == SerialInit /\ [][SerialNext]_vars

(***************************************************************************)
(* DataLoader, of nn_layers.hpp (class "nn": over X_ and y_, a batch is    *)
(* two new tensors) and of darv_dataset.hpp (class "autograd": over a      *)
(* copy of a Dataset, with the range-for Iterator).  Sample i of X_ is the *)
(* row <<i>> with label i; a dataset is represented by its size.           *)
(* `delivered` is what the caller has received since the pass began: the   *)
(* sample indices of each batch.  `iterator` is the position of a          *)
(* range-for loop over the loader.                                         *)
(***************************************************************************)
\* std::shuffle / the rand() loop of shuffle_indices: any order of 0..n-1
Orders(n) == {p \in [1..n -> 0..(n - 1)] : \A i, j \in 1..n : p[i] = p[j] => i = j}

Iota(n) == [i \in 1..n |-> i - 1]

\* shuffle_indices() of the nn class on an empty indices_ computes
\* rand() % (i + 1) with i = SIZE_MAX: a division by zero
shuffle_indices_divides_by_zero(class, n) == class = "nn" /\ n = 0

DataLoader_has_next(L) == L.current_idx_ < L.size

DataLoader_num_batches_floor(L) == L.size \div L.batch_size_

DataLoader_num_batches(L) == (L.size + L.batch_size_ - 1) \div L.batch_size_

Min(x, y) == IF x < y THEN x ELSE y

\* The sample indices of the next batch
DataLoader_batch(L) ==
    [i \in 1..(Min(L.current_idx_ + L.batch_size_, L.size) - L.current_idx_) |->
        L.indices_[L.current_idx_ + i]]

DataLoader_next_batch(L) ==
    [L EXCEPT !.current_idx_ = Min(L.current_idx_ + L.batch_size_, L.size),
              !.delivered = Append(@, DataLoader_batch(L))]

\* The tensors X_tensor and y_tensor the nn class makes of a batch
DataLoader_tensors(T, L) ==
    IF L.class = "nn"
    THEN LET batch == DataLoader_batch(L)
         IN  T \o <<TensorData(batch, <<Len(batch), 1>>, TRUE),
                    TensorData(batch, <<Len(batch)>>, FALSE)>>
    ELSE T

LoaderCall(call, values, heap, L) ==
    /\ ObjectCall(call, 0, 0, values, heap)
    /\ loader' = L
    /\ UNCHANGED <<files, dataset, cycle>>

NewDataLoader(class, n, batch_size, shuffle) ==
    /\ ~loader.exists
    /\ IF shuffle /\ shuffle_indices_divides_by_zero(class, n)
       THEN /\ Throws("DataLoader", 0, 0, <<>>, <<n, batch_size>>)
       ELSE \E order \in IF shuffle THEN Orders(n) ELSE {Iota(n)} :
               LoaderCall("DataLoader", <<n, batch_size>>, tensors,
                          [exists |-> TRUE, class |-> class, size |-> n,
                           batch_size_ |-> batch_size, shuffle_ |-> shuffle,
                           indices_ |-> order, current_idx_ |-> 0,
                           delivered |-> <<>>, passes |-> 1, iterator |-> NoIterator])

\* reset(): the caller starts a new pass
DataLoader_reset(L, order) ==
    [L EXCEPT !.current_idx_ = 0, !.indices_ = order,
              !.delivered = <<>>, !.passes = @ + 1]

Reorders(L) == IF L.shuffle_ THEN Orders(L.size) ELSE {L.indices_}

\* while (loader.has_next()) loader.next_batch()
next_batch ==
    /\ loader.exists /\ loader.iterator.phase = "none"
    /\ DataLoader_has_next(loader)
    /\ LoaderCall("next_batch", <<>>, DataLoader_tensors(tensors, loader),
                  DataLoader_next_batch(loader))

reset ==
    /\ loader.exists /\ loader.iterator.phase = "none"
    /\ \E order \in Reorders(loader) :
          LoaderCall("reset", <<>>, tensors, DataLoader_reset(loader, order))

\* for (auto batch : loader): begin() resets and makes the iterator
begin ==
    /\ loader.exists /\ loader.class = "autograd" /\ loader.iterator.phase = "none"
    /\ \E order \in Reorders(loader) :
          LET L == DataLoader_reset(loader, order)
          IN  LoaderCall("begin", <<>>, tensors,
                         [L EXCEPT !.iterator =
                             [phase |-> "test", end_ |-> ~DataLoader_has_next(L)]])

\* it != end() holds: operator*() and the loop body
dereference ==
    /\ loader.exists /\ loader.iterator.phase = "test" /\ ~loader.iterator.end_
    /\ DataLoader_has_next(loader)
    /\ LoaderCall("operator*", <<>>, tensors,
                  [DataLoader_next_batch(loader) EXCEPT !.iterator.phase = "body"])

\* operator++()
increment ==
    /\ loader.exists /\ loader.iterator.phase = "body"
    /\ LoaderCall("operator++", <<>>, tensors,
                  [loader EXCEPT !.iterator =
                      [phase |-> "test",
                       end_ |-> IF ~DataLoader_has_next(loader) THEN TRUE ELSE @.end_]])

\* it != end() fails: the loop is left
leave ==
    /\ loader.exists /\ loader.iterator.phase = "test" /\ loader.iterator.end_
    /\ LoaderCall("end", <<>>, tensors, [loader EXCEPT !.iterator = NoIterator])

(***************************************************************************)
(* LoaderSpec: a loader of either class over 0..LoaderMaxSamples samples   *)
(* in any order, or over the 10 samples of test_6_dataloader in their own  *)
(* order, and passes over it by has_next()/next_batch() or by range-for.   *)
(***************************************************************************)
LoaderMaxSamples == 4
LoaderMaxBatch == 3
LoaderMaxPasses == 2

TestSamples == 10

LoaderClasses == {"nn", "autograd"}

LoaderInit ==
    /\ tensors = <<>>
    /\ last = Call("none", 0, 0, <<>>, <<>>, FALSE, 0)
    /\ pc = "idle" /\ root = 0 /\ topo = <<>> /\ it = 0 /\ ran = <<>>
    /\ pre = <<>>
    /\ nback = 0
    /\ opt = NoOptimizer /\ sched = NoScheduler /\ nstep = 0
    /\ NoObjects

LoaderNext ==
    \/ \E c \in LoaderClasses, n \in 0..LoaderMaxSamples, b \in 1..LoaderMaxBatch,
          sh \in BOOLEAN : NewDataLoader(c, n, b, sh)
    \/ \E c \in LoaderClasses, b \in 1..LoaderMaxBatch : NewDataLoader(c, TestSamples, b, FALSE)
    \/ next_batch
    \/ loader.passes < LoaderMaxPasses /\ reset
    \/ loader.passes < LoaderMaxPasses /\ begin
    \/ dereference
    \/ increment
    \/ leave

LoaderSpec == LoaderInit /\ [][LoaderNext]_vars

(***************************************************************************)
(* The layers of core/layers/nn_layers.hpp.  A layer is a record: a Linear *)
(* holds the identities of its weight [out_features, in_features] and bias *)
(* [out_features]; an activation holds nothing.                            *)
(***************************************************************************)
Linear(weight, bias, in_features, out_features) ==
    [kind |-> "Linear", weight |-> weight, bias |-> bias,
     in_features |-> in_features, out_features |-> out_features]

ReLU == [kind |-> "ReLU"]

Sigmoid == [kind |-> "Sigmoid"]

\* Linear::transpose: a tensor built by the data constructor, with no inputs_
Linear_transpose(T, t) ==
    LET rows == T[t].shape[1]
        cols == T[t].shape[2]
    IN  TensorData([p \in 1..(rows * cols) |->
                       At(T[t].data, ((p - 1) % rows) * cols + ((p - 1) \div rows))],
                   <<cols, rows>>, T[t].requires_grad)

Linear_was_1d(T, input) == Len(T[input].shape) = 1

\* The reshape of a 1-D input, transpose() and matmul() are the calls that throw
Linear_throws(T, L, input) ==
    \/ Linear_was_1d(T, input) /\ reshape_throws(T, input, <<1, L.in_features>>)
    \/ Len(T[L.weight].shape) # 2
    \/ ~Linear_was_1d(T, input)
        /\ (Len(T[input].shape) # 2 \/ T[input].shape[2] # T[L.weight].shape[2])
    \/ Linear_was_1d(T, input) /\ L.in_features # T[L.weight].shape[2]

\* input = input->reshape(Shape{1, in_features_}) of a 1-D input
Linear_reshaped(T, L, input) ==
    IF Linear_was_1d(T, input)
    THEN Append(T, reshape_result(T, input, <<1, L.in_features>>))
    ELSE T

Linear_input(T, input) == IF Linear_was_1d(T, input) THEN Len(T) + 1 ELSE input

\* weight_t = transpose(weight_)
Linear_transposed(T, L) == Append(T, Linear_transpose(T, L.weight))

\* output = input->matmul(weight_t), weight_t being the newest tensor
Linear_output(T, input) == Append(T, matmul_result(T, input, Len(T)))

\* result: output plus the bias on every row, inputs_ = {output, bias_}
Linear_result(T, L) ==
    LET output == Len(T)
        batch_size == T[output].shape[1]
    IN  Append(T, Derived(T[output].shape, T[output].requires_grad,
                   [e \in 1..(batch_size * L.out_features) |->
                       T[output].data[e]
                     + At(T[L.bias].data, (e - 1) % L.out_features)],
                   <<output, L.bias>>,
                   Closure("linear", output, L.bias, Len(T) + 1, 0,
                           batch_size, 0, L.out_features)))

\* Linear::forward: the heap after a call that returns; the result is the newest
Linear_forward(T, L, input) ==
    Linear_result(
        Linear_output(Linear_transposed(Linear_reshaped(T, L, input), L),
                      Linear_input(T, input)),
        L)

Layer_throws(T, L, input) == L.kind = "Linear" /\ Linear_throws(T, L, input)

Layer_forward(T, L, input) ==
    CASE L.kind = "Linear" -> Linear_forward(T, L, input)
      [] L.kind = "ReLU" -> Append(T, relu_result(T, input))
      [] L.kind = "Sigmoid" -> Append(T, sigmoid_result(T, input))

\* Sequential::forward: for (auto& layer : layers_) output = layer->forward(output);
\* the outcome is the heap and whether a layer threw.
RECURSIVE Sequential_forward(_, _, _, _)
Sequential_forward(T, layers, i, output) ==
    IF i > Len(layers) THEN [heap |-> T, threw |-> FALSE]
    ELSE IF Layer_throws(T, layers[i], output) THEN [heap |-> T, threw |-> TRUE]
    ELSE Sequential_forward(Layer_forward(T, layers[i], output), layers, i + 1,
                            Len(Layer_forward(T, layers[i], output)))

\* Sequential::parameters: the layers' parameters, in order
RECURSIVE Sequential_parameters(_, _)
Sequential_parameters(layers, i) ==
    IF i > Len(layers) THEN <<>>
    ELSE (IF layers[i].kind = "Linear"
          THEN <<layers[i].weight, layers[i].bias>> ELSE <<>>)
         \o Sequential_parameters(layers, i + 1)

\* model.forward(input)
forward(layers, input) ==
    LET r == Sequential_forward(tensors, layers, 1, input)
    IN  IF r.threw
        THEN Throws("forward", input, 0, <<>>, <<>>)
        ELSE Returns("forward", input, 0, <<>>, <<>>, r.heap)

\* model.zero_grad(): param->zero_grad() of every parameter
model_zero_grad(layers) ==
    Returns("model_zero_grad", 0, 0, <<>>, <<>>,
            Optimizer_zero_grad([parameters |-> Sequential_parameters(layers, 1)],
                                tensors, 1))

(***************************************************************************)
(* Networks of Linear layers, as test_3_xor_problem and debug_xor_training *)
(* build and train them: forward, a scalar loss of the prediction,         *)
(* model.zero_grad(), loss->backward().  Tensors 1..4 are the parameters   *)
(* of two Linear layers, 5 is the input and 6 the target.                  *)
(***************************************************************************)
Hidden == Linear(1, 2, 2, 2)

Output == Linear(3, 4, 2, 1)

Networks == {<<Hidden>>, <<Output>>, <<Hidden, ReLU, Output>>,
             <<Hidden, ReLU, Output, Sigmoid>>}

HiddenWeights == {<<1, 2, 3, 4>>, <<1, 0, 2, 1>>}

OutputWeights == {<<1, 1>>, <<2, 3>>}

LinearInputs == {[values |-> <<1, 2>>, shape |-> <<2>>],
                 [values |-> <<0, 1>>, shape |-> <<1, 2>>],
                 [values |-> <<1, 2, 3, 1>>, shape |-> <<2, 2>>],
                 [values |-> <<1, 2, 3>>, shape |-> <<3>>]}

LinearInit ==
    /\ \E w1 \in HiddenWeights, w2 \in OutputWeights, x \in LinearInputs,
          rg \in BOOLEAN :
          tensors = << TensorData(w1, <<2, 2>>, TRUE),
                       Tensor(<<2>>, TRUE),
                       TensorData(w2, <<1, 2>>, TRUE),
                       Tensor(<<1>>, TRUE),
                       TensorData(x.values, x.shape, rg),
                       TensorData(<<1>>, <<1>>, FALSE) >>
    /\ last = Call("none", 0, 0, <<>>, <<>>, FALSE, 0)
    /\ pc = "idle" /\ root = 0 /\ topo = <<>> /\ it = 0 /\ ran = <<>>
    /\ pre = <<>>
    /\ nback = 0
    /\ opt = NoOptimizer /\ sched = NoScheduler /\ nstep = 0
    /\ NoObjects

LinearNext ==
    \/ \E net \in Networks : last.call = "none" /\ forward(net, 5)
    \/ last.call = "forward" /\ ~last.threw /\ sum(Len(tensors))
    \/ last.call = "forward" /\ ~last.threw /\ MSELoss(Len(tensors), 6)
    \/ last.call \in {"sum", "MSELoss"} /\ ~last.threw
        /\ \E net \in Networks : model_zero_grad(net)
    \/ last.call = "model_zero_grad" /\ nback = 0 /\ backward(Len(tensors))
    \/ \E t \in DOMAIN tensors : backward_fn(t)

LinearSpec == LinearInit /\ [][LinearNext]_vars

(***************************************************************************)
(* AccumSpec: graphs of multiply_scalar, add and sum over the leaves       *)
(* x = (2, 3) and y = (5, 7), then backward() from any tensor, several     *)
(* times, with no zero_grad().                                             *)
(***************************************************************************)
AccumMaxTensors == 4
AccumMaxBackward == 2

AccumInit ==
    /\ \E ry \in BOOLEAN :
          tensors = <<TensorData(<<2, 3>>, <<2>>, TRUE), TensorData(<<5, 7>>, <<2>>, ry)>>
    /\ last = Call("none", 0, 0, <<>>, <<>>, FALSE, 0)
    /\ pc = "idle" /\ root = 0 /\ topo = <<>> /\ it = 0 /\ ran = <<>>
    /\ pre = <<>>
    /\ nback = 0
    /\ opt = NoOptimizer /\ sched = NoScheduler /\ nstep = 0
    /\ NoObjects

AccumRoom == Len(tensors) < AccumMaxTensors /\ nback = 0

AccumNext ==
    \/ AccumRoom /\ \E a \in Ids, c \in Scalars : multiply_scalar(a, c)
    \/ AccumRoom /\ \E a, b \in Ids : add(a, b)
    \/ AccumRoom /\ \E a \in Ids : sum(a)
    \/ nback < AccumMaxBackward /\ \E a \in Ids : backward(a)
    \/ \E a \in Ids : backward_fn(a)

AccumSpec == AccumInit /\ [][AccumNext]_vars

(***************************************************************************)
(* TiedSpec: optimizers whose parameter list names a tensor more than      *)
(* once, over the heap of OptimSpec.                                       *)
(***************************************************************************)
TiedMaxBackward == 2
TiedMaxSteps == 2

TiedLists == {<<1, 1>>, <<2, 2>>, <<1, 2, 1>>}

TiedInit ==
    /\ \E rb \in BOOLEAN : tensors = OptimHeap(rb)
    /\ last = Call("none", 0, 0, <<>>, <<>>, FALSE, 0)
    /\ pc = "idle" /\ root = 0 /\ topo = <<>> /\ it = 0 /\ ran = <<>>
    /\ pre = <<>>
    /\ nback = 0
    /\ opt = NoOptimizer /\ sched = NoScheduler /\ nstep = 0
    /\ NoObjects

TiedNext ==
    \/ \E ps \in TiedLists, lr \in Rates, mo \in Momenta, ne \in BOOLEAN :
          NewSGD(ps, lr, mo, ne)
    \/ \E ps \in TiedLists, lr \in Rates, b1 \in Betas, b2 \in Betas, ep \in Epsilons :
          NewAdam(ps, lr, b1, b2, ep)
    \/ \E ps \in TiedLists, lr \in Rates, al \in Alphas, ep \in Epsilons :
          NewRMSprop(ps, lr, al, ep)
    \/ \E ps \in TiedLists, lr \in Rates, ep \in Epsilons : NewAdaGrad(ps, lr, ep)
    \/ nback < TiedMaxBackward /\ opt.kind # "none" /\ backward(Len(tensors))
    \/ \E a \in Ids : backward_fn(a)
    \/ nstep < TiedMaxSteps /\ nback > 0 /\ step
    \/ nback > 0 /\ OptimizerZeroGrad

TiedSpec == TiedInit /\ [][TiedNext]_vars

(***************************************************************************)
(* core/darv_cycle.hpp.  The executor, the evaluator and the improver are  *)
(* outside: whether a build succeeds and the overall score an evaluation   *)
(* gives (0 to 100) are inputs of a cycle.  A record of the history keeps  *)
(* its cycle number, whether the build succeeded, and the score.           *)
(***************************************************************************)
DarvCycle(max_cycles, convergence_threshold) ==
    [exists |-> TRUE, max_cycles |-> max_cycles,
     convergence_threshold |-> convergence_threshold,
     history |-> <<>>, i |-> 0, phase |-> "constructed", converged |-> FALSE]

\* run_single_cycle: a failed build is recorded with score 0 and no evaluation
CycleRecord(cycle_number, build_success, score) ==
    [cycle_number |-> cycle_number, build_success |-> build_success,
     overall_score |-> IF build_success THEN score ELSE 0]

check_convergence(history, threshold) ==
    LET n == Len(history)
    IN  IF n < 3 THEN FALSE
        ELSE \/ /\ Abs(history[n].overall_score - history[n - 1].overall_score) < threshold
                /\ Abs(history[n - 1].overall_score - history[n - 2].overall_score) < threshold
             \/ history[n].overall_score > 95

CycleCall(call, values, C) ==
    /\ ObjectCall(call, 0, 0, values, tensors)
    /\ cycle' = C
    /\ UNCHANGED <<files, loader, dataset>>

NewDarvCycle(max_cycles, convergence_threshold) ==
    /\ ~cycle.exists
    /\ CycleCall("DarvCycle", <<max_cycles, convergence_threshold>>,
                 DarvCycle(max_cycles, convergence_threshold))

\* run_cycles up to the test of its loop, for (int i = 1; i <= config.max_cycles; ...
run_cycles ==
    /\ cycle.phase = "constructed"
    /\ CycleCall("run_cycles", <<>>,
                 [cycle EXCEPT !.i = 1,
                               !.phase = IF 1 <= cycle.max_cycles THEN "running" ELSE "done"])

\* One turn of the loop: run_single_cycle(i), history.push_back(record), and
\* break if check_convergence(), else i++ and the test of the loop
run_single_cycle(build_success, score) ==
    /\ cycle.phase = "running"
    /\ LET history == Append(cycle.history, CycleRecord(cycle.i, build_success, score))
           stop == check_convergence(history, cycle.convergence_threshold)
       IN  CycleCall("run_single_cycle", <<Bit(build_success), score>>,
                     [cycle EXCEPT
                        !.history = history,
                        !.converged = stop,
                        !.i = IF stop THEN @ ELSE @ + 1,
                        !.phase = IF stop \/ cycle.i + 1 > cycle.max_cycles
                                  THEN "done" ELSE "running"])

(***************************************************************************)
(* CycleSpec: a DarvCycle with any configuration of a few cycles, run once *)
(* with any outcome of each cycle.                                         *)
(***************************************************************************)
CycleMaxCycles == 5

Thresholds == {0, 2, 10}

Scores == {0, 50, 51, 60, 95, 96}

CycleInit ==
    /\ tensors = <<>>
    /\ last = Call("none", 0, 0, <<>>, <<>>, FALSE, 0)
    /\ pc = "idle" /\ root = 0 /\ topo = <<>> /\ it = 0 /\ ran = <<>>
    /\ pre = <<>>
    /\ nback = 0
    /\ opt = NoOptimizer /\ sched = NoScheduler /\ nstep = 0
    /\ NoObjects

CycleNext ==
    \/ \E m \in 0..CycleMaxCycles, th \in Thresholds : NewDarvCycle(m, th)
    \/ run_cycles
    \/ \E ok \in BOOLEAN, sc \in Scores : run_single_cycle(ok, sc)

CycleSpec == CycleInit /\ [][CycleNext]_vars

(***************************************************************************)
(* core/darv_dataset.hpp, class Dataset.  Samples are tensors of the heap, *)
(* held by identity.  A ratio is a fraction <<numerator, denominator>>.    *)
(***************************************************************************)
Pairs(data, labels) == [i \in 1..Len(data) |-> <<data[i], labels[i]>>]

\* Dataset(data, labels) throws when the two lists differ in length
Dataset_throws(data, labels) == Len(data) # Len(labels)

Dataset(data, labels) ==
    [exists |-> TRUE, data_ |-> data, labels_ |-> labels, size_ |-> Len(data),
     added |-> Pairs(data, labels), train |-> NoSplit, test |-> NoSplit]

Dataset_add_sample(D, data, label) ==
    [D EXCEPT !.data_ = Append(@, data),
              !.labels_ = Append(@, label),
              !.size_ = @ + 1]

\* shuffle() that reorders the data and leaves the labels where they are
Dataset_shuffle_data_only(D, indices) ==
    [D EXCEPT !.data_ = [i \in 1..D.size_ |-> D.data_[indices[i] + 1]]]

\* shuffle(): shuffled_data and shuffled_labels are filled along one order of
\* the indices
Dataset_shuffle(D, indices) ==
    [D EXCEPT !.data_ = [i \in 1..D.size_ |-> D.data_[indices[i] + 1]],
              !.labels_ = [i \in 1..D.size_ |-> D.labels_[indices[i] + 1]]]

\* static_cast<size_t>(size_ * train_ratio)
train_size(D, ratio) == (D.size_ * ratio[1]) \div ratio[2]

\* The samples i, from 0, of D that satisfy `first` (i < train_size) or do not,
\* add_sample()d to an empty Dataset in order
RECURSIVE Dataset_split(_, _, _, _, _)
Dataset_split(D, n, first, i, S) ==
    IF i >= D.size_ THEN S
    ELSE Dataset_split(D, n, first, i + 1,
            IF (i < n) = first
            THEN [data_ |-> Append(S.data_, D.data_[i + 1]),
                  labels_ |-> Append(S.labels_, D.labels_[i + 1]),
                  size_ |-> S.size_ + 1]
            ELSE S)

DatasetCall(call, this, values, D) ==
    /\ ObjectCall(call, this, 0, values, tensors)
    /\ dataset' = D
    /\ UNCHANGED <<files, loader, cycle>>

NewDataset(data, labels) ==
    /\ ~dataset.exists
    /\ IF Dataset_throws(data, labels)
       THEN Throws("Dataset", 0, 0, <<>>, data \o labels)
       ELSE DatasetCall("Dataset", 0, data \o labels, Dataset(data, labels))

add_sample(data, label) ==
    /\ dataset.exists
    /\ DatasetCall("add_sample", 0, <<data, label>>,
                   [Dataset_add_sample(dataset, data, label) EXCEPT
                       !.added = Append(@, <<data, label>>)])

shuffle ==
    /\ dataset.exists
    /\ \E indices \in Orders(dataset.size_) :
          DatasetCall("shuffle", 0, <<>>, Dataset_shuffle(dataset, indices))

\* operator[](idx): the pair is the call's values
subscript(idx) ==
    /\ dataset.exists
    /\ IF idx >= dataset.size_
       THEN Throws("subscript", idx, 0, <<>>, <<>>)
       ELSE DatasetCall("subscript", idx,
                        <<dataset.data_[idx + 1], dataset.labels_[idx + 1]>>, dataset)

train_test_split(ratio) ==
    /\ dataset.exists
    /\ DatasetCall("train_test_split", 0, ratio,
                   [dataset EXCEPT
                       !.train = Dataset_split(dataset, train_size(dataset, ratio),
                                               TRUE, 0, NoSplit),
                       !.test = Dataset_split(dataset, train_size(dataset, ratio),
                                              FALSE, 0, NoSplit)])

(***************************************************************************)
(* DatasetSpec: a Dataset over two data tensors (1, 3) and two label       *)
(* tensors (2, 4), built by the constructor and by add_sample, shuffled,   *)
(* read and split in any order.                                            *)
(***************************************************************************)
DatasetMaxSamples == 3

DataTensors == {1, 3}

LabelTensors == {2, 4}

SampleLists == {<<>>, <<1>>, <<3, 1>>}

LabelLists == {<<>>, <<2>>, <<4, 2>>}

Ratios == {<<0, 1>>, <<1, 2>>, <<4, 5>>, <<1, 1>>}

DatasetInit ==
    /\ tensors = << TensorData(<<1>>, <<1>>, FALSE), TensorData(<<0>>, <<1>>, FALSE),
                    TensorData(<<2>>, <<1>>, FALSE), TensorData(<<1>>, <<1>>, FALSE) >>
    /\ last = Call("none", 0, 0, <<>>, <<>>, FALSE, 0)
    /\ pc = "idle" /\ root = 0 /\ topo = <<>> /\ it = 0 /\ ran = <<>>
    /\ pre = <<>>
    /\ nback = 0
    /\ opt = NoOptimizer /\ sched = NoScheduler /\ nstep = 0
    /\ NoObjects

DatasetNext ==
    \/ \E data \in SampleLists, labels \in LabelLists : NewDataset(data, labels)
    \/ dataset.size_ < DatasetMaxSamples
        /\ \E data \in DataTensors, label \in LabelTensors : add_sample(data, label)
    \/ shuffle
    \/ \E idx \in 0..DatasetMaxSamples : subscript(idx)
    \/ \E ratio \in Ratios : train_test_split(ratio)

DatasetSpec == DatasetInit /\ [][DatasetNext]_vars

(***************************************************************************)
(* What the properties speak of.                                           *)
(***************************************************************************)
\* The tensors reachable from r through inputs, r included
RECURSIVE Reach(_, _)
Reach(T, r) ==
    {r} \cup UNION {Reach(T, T[r].inputs[i]) : i \in 1..Len(T[r].inputs)}

IsLeaf(T, t) == T[t].inputs = <<>>

Consumes(T, c, t) == \E i \in 1..Len(T[c].inputs) : T[c].inputs[i] = t

AllZero(buf) == \A j \in 1..Len(buf) : buf[j] = 0

\* Every tensor of r's graph has an all-zero grad: a graph fresh from the forward pass
FreshGrads(T, r) == \A t \in Reach(T, r) : AllZero(T[t].grad)

BackwardReturned == pc = "idle" /\ last.call = "backward"

\* The derivative of element j of an add or multiply output by its i-th operand
Partial(T, t, i, j) ==
    IF T[t].backward_fn.op = "multiply" THEN T[T[t].inputs[3 - i]].data[j] ELSE 1

\* The sum, over every path from t down to x, of the product of the partial
\* derivatives along the path
RECURSIVE PathGrad(_, _, _, _)
PathGrad(T, t, x, j) ==
    IF t = x THEN 1
    ELSE SeqSum([i \in 1..Len(T[t].inputs) |->
                    Partial(T, t, i, j) * PathGrad(T, T[t].inputs[i], x, j)])

(***************************************************************************)
(* C1: after one backward() on a one-element root of a fresh graph of add  *)
(* and multiply, the grad of every leaf that requires grad is the sum of   *)
(* the contributions of all paths from the root to it, also when the leaf  *)
(* has several consumers or is both operands of one multiply.              *)
(***************************************************************************)
C1_SharedGradient ==
    (BackwardReturned /\ FreshGrads(pre, root) /\ tensors[root].size = 1) =>
        \A x \in Reach(tensors, root) :
            (IsLeaf(tensors, x) /\ tensors[x].requires_grad) =>
                tensors[x].grad = [j \in 1..tensors[x].size |->
                                      PathGrad(tensors, root, x, j)]

\* loss = x*x + x*y with x = 2, y = 3: x.grad = 2x + y = 7, y.grad = x = 2
C1_Witness ==
    /\ BackwardReturned /\ FreshGrads(pre, root) /\ root = 5
    /\ Len(tensors) = 5
    /\ tensors[3].backward_fn.op = "multiply" /\ tensors[3].inputs = <<1, 1>>
    /\ tensors[4].backward_fn.op = "multiply" /\ tensors[4].inputs = <<1, 2>>
    /\ tensors[5].backward_fn.op = "add" /\ tensors[5].inputs = <<3, 4>>
    /\ tensors[1].grad = <<7>>
    /\ tensors[2].grad = <<2>>

(***************************************************************************)
(* C2: during backward() a tensor's backward_fn runs only after that of    *)
(* every consumer of it reachable from the root, and once it has run its   *)
(* grad no longer changes in that call.                                    *)
(***************************************************************************)
C2_ConsumersRanBefore ==
    \A i \in 1..Len(ran) :
        \A c \in Reach(tensors, root) :
            Consumes(tensors, c, ran[i]) => \E h \in 1..(i - 1) : ran[h] = c

C2_ReverseTopologicalOrder ==
    /\ [](root # 0 => C2_ConsumersRanBefore)
    /\ [][pc = "backward" =>
            \A i \in 1..Len(ran) : tensors'[ran[i]].grad = tensors[ran[i]].grad]_vars

\* A returned call on a graph where t reaches the root directly and through c1
C2_Witness ==
    /\ BackwardReturned
    /\ \E t, c1 \in Reach(tensors, root) :
          /\ t # c1 /\ c1 # root
          /\ Consumes(tensors, c1, t)
          /\ Consumes(tensors, root, t) /\ Consumes(tensors, root, c1)
          /\ tensors[t].requires_grad /\ ~AllZero(tensors[t].grad)

(***************************************************************************)
(* C3: backward() invokes the backward_fn of every tensor reachable from   *)
(* the root exactly once, of no other tensor, and returns after as many    *)
(* turns of its loop as there are reachable tensors.                       *)
(***************************************************************************)
BackwardTurn == \E t \in Ids : backward_fn(t)

C3_EachReachableOnce ==
    root # 0 =>
        /\ \A i, h \in 1..Len(ran) : i # h => ran[i] # ran[h]
        /\ \A i \in 1..Len(ran) : ran[i] \in Reach(tensors, root)
        /\ pc = "backward" =>
              /\ it >= 1
              /\ it + Len(ran) = Cardinality(Reach(tensors, root))
              /\ ENABLED BackwardTurn
        /\ BackwardReturned => {ran[i] : i \in 1..Len(ran)} = Reach(tensors, root)

\* A returned call: a tensor with two consumers on the way, another tensor out of reach
C3_Witness ==
    /\ BackwardReturned
    /\ Reach(tensors, root) # Ids
    /\ \E t, c1, c2 \in Reach(tensors, root) :
          c1 # c2 /\ Consumes(tensors, c1, t) /\ Consumes(tensors, c2, t)
    /\ Len(ran) = Cardinality(Reach(tensors, root))

(***************************************************************************)
(* C5: zero_grad() on a tensor returns with the grad of every tensor       *)
(* reachable from it all zeros and with every data buffer as it was.       *)
(***************************************************************************)
C5_ZeroGradReachesAll ==
    last.call = "zero_grad" =>
        /\ \A u \in Reach(tensors, last.this) : AllZero(tensors[u].grad)
        /\ Len(tensors) = Len(pre)
        /\ \A u \in Ids : tensors[u].data = pre[u].data

\* zero_grad() on a root two levels above a shared leaf whose grad was not zero
C5_Witness ==
    /\ last.call = "zero_grad"
    /\ \E t, c1, c2 \in Reach(tensors, last.this) :
          /\ c1 # c2 /\ c1 # last.this /\ c2 # last.this
          /\ Consumes(tensors, c1, t) /\ Consumes(tensors, c2, t)
          /\ ~AllZero(pre[t].grad) /\ ~AllZero(pre[c1].grad)
          /\ AllZero(tensors[t].grad)

(***************************************************************************)
(* Matrices as rows of columns, for stating the matmul rule: a row-major   *)
(* buffer read as a rows x cols matrix, and back.                          *)
(***************************************************************************)
Mat(buf, rows, cols) ==
    [i \in 1..rows |-> [j \in 1..cols |-> buf[(i - 1) * cols + j]]]

Flat(M, rows, cols) ==
    [p \in 1..(rows * cols) |-> M[((p - 1) \div cols) + 1][((p - 1) % cols) + 1]]

Transposed(M, rows, cols) ==
    [j \in 1..cols |-> [i \in 1..rows |-> M[i][j]]]

\* X (rows x inner) times Y (inner x cols)
MatTimes(X, Y, rows, inner, cols) ==
    [i \in 1..rows |-> [j \in 1..cols |->
        SeqSum([l \in 1..inner |-> X[i][l] * Y[l][j]])]]

PlusBuf(b1, b2) == [p \in 1..Len(b1) |-> b1[p] + b2[p]]

\* What the rule of C = A @ B is to add to the grad of tensor u, in the heap T
MatmulRuleAdds(T, c, u) ==
    LET a == T[c].inputs[1]
        b == T[c].inputs[2]
        m == T[a].shape[1]
        k == T[a].shape[2]
        n == T[b].shape[2]
        G == Mat(T[c].grad, m, n)
        dA == Flat(MatTimes(G, Transposed(Mat(T[b].data, k, n), k, n), m, n, k), m, k)
        dB == Flat(MatTimes(Transposed(Mat(T[a].data, m, k), m, k), G, k, m, n), k, n)
        g1 == IF u = a /\ T[a].requires_grad THEN PlusBuf(T[u].grad, dA) ELSE T[u].grad
    IN  IF u = b /\ T[b].requires_grad THEN PlusBuf(g1, dB) ELSE g1

(***************************************************************************)
(* C4: the backward rule of C = matmul(A, B) adds grad(C) * transpose(B)   *)
(* to A.grad and transpose(A) * grad(C) to B.grad, element by element,     *)
(* for an operand that requires grad, and changes nothing else.            *)
(***************************************************************************)
C4_MatmulBackwardRule ==
    [][\A c \in Ids :
          (pc = "backward" /\ it >= 1 /\ topo[it] = c
              /\ tensors[c].backward_fn.op = "matmul") =>
              /\ Len(tensors') = Len(tensors)
              /\ \A u \in Ids :
                    /\ tensors'[u].grad = MatmulRuleAdds(tensors, c, u)
                    /\ tensors'[u].data = tensors[u].data]_vars

\* The rule has run for a non-square product with an uneven grad(C), where only A
\* requires grad and A.grad was not zero before the call
C4_Witness ==
    \E i \in 1..Len(ran) :
        LET c == ran[i]
            a == tensors[c].inputs[1]
            b == tensors[c].inputs[2]
        IN  /\ tensors[c].backward_fn.op = "matmul"
            /\ tensors[c].shape[1] # tensors[c].shape[2]
            /\ tensors[a].shape[1] # tensors[a].shape[2]
            /\ tensors[a].requires_grad /\ ~tensors[b].requires_grad
            /\ \E p, q \in 1..Len(tensors[c].grad) :
                  tensors[c].grad[p] # tensors[c].grad[q]
            /\ ~AllZero(pre[a].grad)
            /\ tensors[a].grad # pre[a].grad
            /\ tensors[b].grad = <<>>

(***************************************************************************)
(* A whole backward() call on the heap T, and the call sum(r)->backward()  *)
(* made on the heap T instead.                                             *)
(***************************************************************************)
RECURSIVE run_loop(_, _, _)
run_loop(T, order, i) ==
    IF i = 0 THEN T ELSE run_loop(call_backward_fn(T, order[i]), order, i - 1)

run_backward(T, r) ==
    LET order == build_topo(T, r, [visited |-> {}, topo |-> <<>>]).topo
    IN  run_loop(seed_grad(T, r), order, Len(order))

BackwardOfSum(T, r) == run_backward(Append(T, sum_result(T, r)), Len(T) + 1)

NonScalarRootReturned == BackwardReturned /\ tensors[root].size > 1

(***************************************************************************)
(* C6 as claimed: backward() on a root of more than one element is not     *)
(* rejected, overwrites the root's grad with ones whatever it held, and    *)
(* leaves in every leaf the grad that backward() on sum(root) would.       *)
(***************************************************************************)
C6_SameAsSumAlways ==
    NonScalarRootReturned =>
        /\ tensors[root].grad = Fill(Len(pre[root].grad), 1)
        /\ \A x \in Ids :
              IsLeaf(tensors, x) => tensors[x].grad = BackwardOfSum(pre, root)[x].grad

(***************************************************************************)
(* C6 as amended: backward() on a root of more than one element is not     *)
(* rejected and overwrites the root's grad with ones whatever it held;     *)
(* when the root's grad was all zeros on entry, it leaves in every leaf    *)
(* the grad that backward() on sum(root) would.                            *)
(***************************************************************************)
C6_SameAsSumFromZeroRootGrad ==
    NonScalarRootReturned =>
        /\ ~last.threw
        /\ tensors[root].grad = Fill(Len(pre[root].grad), 1)
        /\ AllZero(pre[root].grad) =>
              \A x \in Ids :
                  IsLeaf(tensors, x) => tensors[x].grad = BackwardOfSum(pre, root)[x].grad

\* A second call on a derived two-element root that requires grad: the grad of a
\* leaf below it has grown
C6_Witness ==
    /\ NonScalarRootReturned
    /\ nback = 2
    /\ ~IsLeaf(tensors, root)
    /\ AllZero(pre[root].grad) /\ tensors[root].grad = <<1, 1>>
    /\ \E x \in Reach(tensors, root) :
          /\ IsLeaf(tensors, x)
          /\ ~AllZero(pre[x].grad)
          /\ tensors[x].grad # pre[x].grad

(***************************************************************************)
(* C7: the output of every primitive operation requires grad exactly when  *)
(* one of its inputs does, and no call changes the requires_grad of a      *)
(* tensor that exists.                                                     *)
(***************************************************************************)
C7_OutputRequiresIffInput ==
    \A t \in Ids :
        ~IsLeaf(tensors, t) =>
            (tensors[t].requires_grad <=>
                \E i \in 1..Len(tensors[t].inputs) :
                    tensors[tensors[t].inputs[i]].requires_grad)

C7_RequiresGradPropagates ==
    /\ []C7_OutputRequiresIffInput
    /\ [][/\ Len(tensors') >= Len(tensors)
          /\ \A t \in Ids : tensors'[t].requires_grad = tensors[t].requires_grad]_vars

\* A two-operand output that requires grad through its first operand only
C7_Witness ==
    /\ last.call \in {"add", "multiply", "matmul"} /\ ~last.threw
    /\ tensors[last.this].requires_grad
    /\ ~tensors[last.other].requires_grad
    /\ tensors[last.out].requires_grad
    /\ tensors[last.out].inputs = <<last.this, last.other>>

(***************************************************************************)
(* C8 as claimed: every tensor has len(data) = size, and len(grad) = size  *)
(* exactly when it requires grad, whatever the shape.                      *)
(***************************************************************************)
C8_GradLengthIffRequiresGrad ==
    \A t \in Ids :
        /\ Len(tensors[t].data) = tensors[t].size
        /\ (Len(tensors[t].grad) = tensors[t].size) <=> tensors[t].requires_grad

(***************************************************************************)
(* C8 as amended: every tensor has len(data) = size; len(grad) = size if   *)
(* it requires grad and len(grad) = 0 if it does not, so that              *)
(* len(grad) = size exactly when it requires grad or its size is 0.        *)
(***************************************************************************)
C8_BufferLengths ==
    \A t \in Ids :
        /\ Len(tensors[t].data) = tensors[t].size
        /\ tensors[t].requires_grad => Len(tensors[t].grad) = tensors[t].size
        /\ ~tensors[t].requires_grad => Len(tensors[t].grad) = 0
        /\ (Len(tensors[t].grad) = tensors[t].size) <=>
              (tensors[t].requires_grad \/ tensors[t].size = 0)

\* A tensor of a zero dimension that does not require grad, and a derived tensor of
\* two elements that does
C8_Witness ==
    \E t, w \in Ids :
        /\ tensors[t].shape = <<0>> /\ ~tensors[t].requires_grad
        /\ Len(tensors[t].grad) = tensors[t].size
        /\ ~IsLeaf(tensors, w) /\ tensors[w].size = 2 /\ tensors[w].requires_grad
        /\ Len(tensors[w].grad) = 2

(***************************************************************************)
(* C9: the data constructor throws exactly when the number of values is    *)
(* not the element count of the shape, reshape throws exactly when the     *)
(* element count of the new shape is not the size of the source (an empty  *)
(* shape counting 0 elements); a throwing call leaves the heap as it was,  *)
(* a returning one adds one tensor of the shape asked for.                 *)
(***************************************************************************)
\* The index tuples of a shape: one per element
IndexTuples(shape) ==
    {f \in [1..Len(shape) -> 0..SeqSum(shape)] : \A i \in 1..Len(shape) : f[i] < shape[i]}

ElementCount(shape) == IF shape = <<>> THEN 0 ELSE Cardinality(IndexTuples(shape))

ThrewNothingDone == tensors = pre /\ last.out = 0

ReturnedOne(shape) ==
    /\ Len(tensors) = Len(pre) + 1
    /\ last.out = Len(tensors)
    /\ \A u \in 1..Len(pre) : tensors[u] = pre[u]
    /\ tensors[last.out].shape = shape

C9_SizeMismatchRejected ==
    /\ last.call = "Tensor" =>
          /\ last.threw <=> Len(last.values) # ElementCount(last.shape)
          /\ IF last.threw THEN ThrewNothingDone
             ELSE ReturnedOne(last.shape) /\ tensors[last.out].data = last.values
    /\ last.call \in {"reshape", "flatten"} =>
          /\ last.threw <=> ElementCount(last.shape) # pre[last.this].size
          /\ IF last.threw THEN ThrewNothingDone
             ELSE ReturnedOne(last.shape)
                  /\ tensors[last.out].data = pre[last.this].data

\* reshape of a two-element tensor to the empty shape has thrown, in a heap that
\* holds a tensor constructed from no values and the empty shape
C9_Witness ==
    /\ last.call = "reshape" /\ last.threw /\ last.shape = <<>>
    /\ tensors = pre
    /\ tensors[last.this].size = 2 /\ tensors[last.this].requires_grad
    /\ \E t \in Ids : tensors[t].shape = <<>> /\ tensors[t].data = <<>>

(***************************************************************************)
(* C10: add and multiply throw exactly when the operands' shapes differ,   *)
(* in rank or in a dimension, also for equal element counts; a throwing    *)
(* call leaves the heap as it was, a returning one adds one tensor of the  *)
(* operands' shape.                                                        *)
(***************************************************************************)
C10_ShapeMismatchRejected ==
    last.call \in {"add", "multiply"} =>
        /\ last.threw <=> pre[last.this].shape # pre[last.other].shape
        /\ IF last.threw THEN ThrewNothingDone
           ELSE ReturnedOne(pre[last.this].shape)

\* [1,2] with [2], both of two elements
C10_Witness ==
    /\ last.call \in {"add", "multiply"} /\ last.threw
    /\ tensors = pre
    /\ tensors[last.this].shape = <<1, 2>> /\ tensors[last.other].shape = <<2>>
    /\ tensors[last.this].size = tensors[last.other].size

(***************************************************************************)
(* C11: matmul returns a tensor of shape [m, n] when the operands are of   *)
(* rank 2 with shapes [m, k] and [k, n]; it throws exactly when an         *)
(* operand's rank is not 2 or the inner dimensions differ, and then the    *)
(* heap, both operands included, is as it was and nothing is allocated.    *)
(***************************************************************************)
C11_MatmulShapeErrors ==
    last.call = "matmul" =>
        LET a == pre[last.this].shape
            b == pre[last.other].shape
            fits == Len(a) = 2 /\ Len(b) = 2 /\ a[2] = b[1]
        IN  /\ last.threw <=> ~fits
            /\ IF last.threw THEN ThrewNothingDone
               ELSE ReturnedOne(<<a[1], b[2]>>)

\* [1,2] with itself: rank 2 on both sides, inner dimensions 2 and 1
C11_Witness ==
    /\ last.call = "matmul" /\ last.threw
    /\ tensors = pre
    /\ tensors[last.this].shape = <<1, 2>> /\ tensors[last.other].shape = <<1, 2>>
    /\ tensors[last.this].requires_grad
    /\ tensors[last.this].data = <<-1, 2>>

(***************************************************************************)
(* Round trips through reshape: u = reshape(reshape(t, s1), t.shape), and  *)
(* the heap in which every consumer of u has been given t instead.         *)
(***************************************************************************)
RoundTrip(T, u, t) ==
    /\ T[u].backward_fn.op = "reshape"
    /\ T[T[u].inputs[1]].backward_fn.op = "reshape"
    /\ T[T[u].inputs[1]].inputs[1] = t
    /\ T[u].shape = T[t].shape

Instead(u, t, x) == IF x = u THEN t ELSE x

Redirect(T, u, t) ==
    [i \in 1..Len(T) |->
        [T[i] EXCEPT
            !.inputs = [h \in 1..Len(@) |-> Instead(u, t, @[h])],
            !.backward_fn = [@ EXCEPT !.this = Instead(u, t, @),
                                      !.other = Instead(u, t, @)]]]

(***************************************************************************)
(* C12: u = reshape(reshape(t, s1), t.shape) has the shape and the data    *)
(* of t, element for element; and after backward() from a one-element      *)
(* tensor computed from u on fresh grads, t.grad is what the same call     *)
(* leaves in t.grad when the consumers of u take t directly.               *)
(***************************************************************************)
C12_ReshapeRoundTrip ==
    /\ \A u, t \in Ids :
          RoundTrip(tensors, u, t) =>
              /\ tensors[u].shape = tensors[t].shape
              /\ tensors[u].size = tensors[t].size
              /\ \A j \in 1..tensors[t].size : tensors[u].data[j] = tensors[t].data[j]
              /\ tensors[u].requires_grad = tensors[t].requires_grad
    /\ (BackwardReturned /\ FreshGrads(pre, root) /\ tensors[root].size = 1) =>
          \A u \in Reach(tensors, root) : \A t \in Ids :
              RoundTrip(tensors, u, t) =>
                  tensors[t].grad =
                      run_backward(Redirect(pre, u, t), Instead(u, t, root))[t].grad

\* sum(u * t) for t of shape [1,2] through [2,1] and back: t.grad = 2 t = (4, 6)
C12_Witness ==
    /\ BackwardReturned /\ FreshGrads(pre, root) /\ tensors[root].size = 1
    /\ Len(tensors) = 5 /\ root = 5
    /\ tensors[1].shape = <<1, 2>> /\ tensors[2].shape = <<2, 1>>
    /\ RoundTrip(tensors, 3, 1)
    /\ tensors[4].backward_fn.op = "multiply" /\ tensors[4].inputs = <<3, 1>>
    /\ tensors[5].backward_fn.op = "sum" /\ tensors[5].inputs = <<4>>
    /\ tensors[1].grad = <<4, 6>>

(***************************************************************************)
(* Optimizers: the step() call being taken, the tensors an optimizer       *)
(* tracks, and the auxiliary state it keeps for one of them.               *)
(***************************************************************************)
StepTaken == last'.call = "step" /\ nstep' = nstep + 1

Tracked(O) == {O.parameters[i] : i \in 1..Len(O.parameters)}

\* velocity, moments, squared-gradient accumulators of parameter p (absent: <<>>)
Entry(map, p) == IF p \in DOMAIN map THEN map[p] ELSE <<>>

Auxiliary(O, p) ==
    <<Entry(O.velocity, p), Entry(O.m, p), Entry(O.v, p),
      Entry(O.square_avg, p), Entry(O.sum_squares, p)>>

(***************************************************************************)
(* C13: step() of every optimizer class leaves a tracked tensor that does  *)
(* not require grad as it was, data and auxiliary state, and gives every   *)
(* other tracked tensor the data and the auxiliary state that step() of    *)
(* an optimizer tracking that tensor alone would give it.                  *)
(***************************************************************************)
C13_FrozenParametersSkipped ==
    [][StepTaken =>
          \A p \in Tracked(opt) :
              IF ~tensors[p].requires_grad
              THEN /\ tensors'[p] = tensors[p]
                   /\ Auxiliary(opt', p) = Auxiliary(opt, p)
              ELSE LET alone == Optimizer_step([opt EXCEPT !.parameters = <<p>>], tensors)
                   IN  /\ tensors'[p].data = alone.tensors[p].data
                       /\ Auxiliary(opt', p) = Auxiliary(alone.opt, p)]_vars

\* Adam over <<b, w>> with b frozen has stepped on a non-zero grad of w: b and its
\* moments are as they were, w and its moments are not
C13_Witness ==
    /\ last.call = "step"
    /\ opt.kind = "Adam" /\ opt.parameters = <<2, 1>>
    /\ ~tensors[2].requires_grad /\ tensors[1].requires_grad
    /\ tensors[2].data = pre[2].data /\ AllZero(opt.m[2]) /\ AllZero(opt.v[2])
    /\ tensors[1].data # pre[1].data /\ ~AllZero(opt.m[1]) /\ ~AllZero(opt.v[1])

(***************************************************************************)
(* C14: Adam's timestep t is 0 at construction and is always the number    *)
(* of step() calls made, whatever the tracked parameters are; and a        *)
(* step() call corrects every element of every parameter it updates with   *)
(* that one value of t.                                                    *)
(***************************************************************************)
\* The data Adam's update gives element i of p from the moments just stored,
\* corrected at timestep t
AdamUpdated(O, T, p, i, t) ==
    Minus(T[p].data[i],
          Quot(Times(O.learning_rate, Quot(O.m[p][i], 1 - Pow(O.beta1, t))),
               Plus(Sqrt(Quot(O.v[p][i], 1 - Pow(O.beta2, t))), O.epsilon)))

C14_AdamTimestepCountsSteps ==
    opt.kind = "Adam" =>
        /\ opt.t = nstep
        /\ last.call = "Adam" => opt.t = 0
        /\ last.call = "step" =>
              \A p \in Tracked(opt) :
                  tensors[p].requires_grad =>
                      \A i \in 1..tensors[p].size :
                          tensors[p].data[i] = AdamUpdated(opt, pre, p, i, nstep)

\* The second step() of an Adam with beta1 = beta2 = 2 over w and the frozen b
C14_Witness ==
    /\ opt.kind = "Adam" /\ last.call = "step"
    /\ opt.parameters = <<1, 2>> /\ ~tensors[2].requires_grad
    /\ opt.beta1 = 2 /\ opt.beta2 = 2
    /\ nstep = 2 /\ opt.t = 2
    /\ tensors[1].data # pre[1].data

(***************************************************************************)
(* C15: one step() of SGD gives every element, of gradient g, of every     *)
(* tracked parameter that requires grad: with momentum 0,                  *)
(* data' = data - lr g; with momentum mo > 0, v' = mo v + lr g and then    *)
(* data' = data - v', or data' = data - (mo v' + lr g) with Nesterov.      *)
(* The velocity is zero before the first step() and changes in step()      *)
(* only.                                                                   *)
(***************************************************************************)
C15_VelocityStartsAtZero ==
    (opt.kind = "SGD" /\ nstep = 0) =>
        \A p \in Tracked(opt) :
            IF opt.momentum > 0
            THEN opt.velocity[p] = Fill(tensors[p].size, 0)
            ELSE p \notin DOMAIN opt.velocity

C15_StepRule ==
    (StepTaken /\ opt.kind = "SGD") =>
        \A p \in Tracked(opt) :
            tensors[p].requires_grad =>
                \A i \in 1..tensors[p].size :
                    LET g == tensors[p].grad[i]
                        lr == opt.learning_rate
                        mo == opt.momentum
                    IN  IF mo = 0
                        THEN tensors'[p].data[i] = tensors[p].data[i] - lr * g
                        ELSE /\ opt'.velocity[p][i] = mo * opt.velocity[p][i] + lr * g
                             /\ tensors'[p].data[i] =
                                   IF opt.nesterov
                                   THEN tensors[p].data[i]
                                        - (mo * opt'.velocity[p][i] + lr * g)
                                   ELSE tensors[p].data[i] - opt'.velocity[p][i]

C15_SGDStepFormulas ==
    /\ []C15_VelocityStartsAtZero
    /\ [][C15_StepRule]_vars
    /\ [][(opt.kind = "SGD" /\ ~StepTaken) => opt'.velocity = opt.velocity]_vars

\* Nesterov with lr = 2, momentum 2 and g = (2, 0) twice on w = (4, -1):
\* v = 4 then 12, data = 4 - 12 = -8 then -8 - 28 = -36
C15_Witness ==
    /\ opt.kind = "SGD" /\ last.call = "step" /\ nstep = 2
    /\ opt.momentum = 2 /\ opt.nesterov /\ opt.learning_rate = 2
    /\ tensors[1].grad = <<2, 0>>
    /\ Entry(opt.velocity, 1) = <<12, 0>>
    /\ tensors[1].data = <<-36, -1>>

(***************************************************************************)
(* C16: the grad of a tensor that exists changes only when backward()      *)
(* seeds its root with ones, when a backward_fn adds to the grads of the   *)
(* inputs of the tensor it belongs to, and when zero_grad() resets it to   *)
(* zeros: no forward operation, loss function, optimizer constructor or    *)
(* step(), and no scheduler call changes the grad of an existing tensor.   *)
(***************************************************************************)
GradWritten(t) == tensors'[t].grad # tensors[t].grad

C16_GradWrittenOnlyByBackwardAndZeroGrad ==
    [][\A t \in Ids :
          /\ Len(tensors'[t].grad) = Len(tensors[t].grad)
          /\ GradWritten(t) =>
                \/ /\ pc = "idle" /\ pc' = "backward" /\ t = root'
                   /\ tensors'[t].grad = Fill(Len(tensors[t].grad), 1)
                \/ /\ pc = "backward"
                   /\ Consumes(tensors, topo[it], t)
                \/ /\ last'.call \in {"zero_grad", "optimizer.zero_grad"}
                   /\ AllZero(tensors'[t].grad)]_vars

\* step() has changed the data of w under a learning rate a scheduler had set,
\* and w.grad, not zero, is what it was
C16_Witness ==
    /\ last.call = "step"
    /\ sched.kind # "none" /\ opt.learning_rate # sched.initial_lr
    /\ ~AllZero(tensors[1].grad)
    /\ tensors[1].grad = pre[1].grad
    /\ tensors[1].data # pre[1].data
    /\ Len(tensors) > 2

(***************************************************************************)
(* The data the operation that allocated the derived tensor t computes     *)
(* from the data of its inputs.                                            *)
(***************************************************************************)
Computed(T, t) ==
    LET fn == T[t].backward_fn
    IN  CASE fn.op = "add" -> add_result(T, fn.this, fn.other).data
          [] fn.op = "multiply" -> multiply_result(T, fn.this, fn.other).data
          [] fn.op = "multiply_scalar" -> multiply_scalar_result(T, fn.this, fn.scalar).data
          [] fn.op = "pow" -> pow_result(T, fn.this, fn.scalar).data
          [] fn.op = "matmul" -> matmul_result(T, fn.this, fn.other).data
          [] fn.op = "sum" -> sum_result(T, fn.this).data
          [] fn.op = "relu" -> relu_result(T, fn.this).data
          [] fn.op = "sigmoid" -> sigmoid_result(T, fn.this).data
          [] fn.op = "tanh" -> tanh_result(T, fn.this).data
          [] fn.op = "reshape" -> T[fn.this].data
          [] fn.op = "log" -> log_result(T, fn.this).data

(***************************************************************************)
(* C17 as claimed: the data of a tensor that exists changes only in        *)
(* step(), on a tensor the optimizer tracks; and every derived tensor a    *)
(* forward operation or a loss function allocates is returned with the     *)
(* data its construction computed: nothing has written into it since.      *)
(***************************************************************************)
C17_DataWrittenOnlyByStep ==
    [][/\ \A t \in Ids :
             tensors'[t].data # tensors[t].data =>
                 StepTaken /\ t \in Tracked(opt)
       /\ \A t \in (Len(tensors) + 1)..Len(tensors') :
             ~IsLeaf(tensors', t) => tensors'[t].data = Computed(tensors', t)]_vars

(***************************************************************************)
(* Schedulers: the rate step(epoch) gives an optimizer whose rate is       *)
(* still the one the scheduler was constructed on.                         *)
(***************************************************************************)
RateFromInitial(Sc, O, epoch) ==
    LRScheduler_step(Sc, [O EXCEPT !.learning_rate = Sc.initial_lr], epoch).learning_rate

SchedulerStepReturned == pc = "idle" /\ last.call = "scheduler.step"

(***************************************************************************)
(* C18 as claimed: after step(epoch) of any scheduler the optimizer's      *)
(* learning rate is a function of epoch and of the scheduler's             *)
(* construction-time parameters, the same whatever step() calls were made  *)
(* before, none included.                                                  *)
(***************************************************************************)
C18_RateDependsOnEpochOnly ==
    SchedulerStepReturned =>
        opt.learning_rate = RateFromInitial(sched, opt, last.values[1])

(***************************************************************************)
(* C18 as amended: no step(epoch) changes the scheduler object.  After     *)
(* step(epoch) of ExponentialLR or CosineAnnealingLR the learning rate is  *)
(* a function of epoch and the construction-time parameters alone.         *)
(* step(epoch) of StepLR multiplies the rate the optimizer has by gamma    *)
(* when epoch > 0 is a multiple of step_size and leaves it otherwise.      *)
(***************************************************************************)
C18_EpochOnlyButStepLR ==
    (SchedulerStepReturned /\ sched.kind # "StepLR") =>
        opt.learning_rate = RateFromInitial(sched, opt, last.values[1])

C18_StepLRScalesCurrentRate ==
    (pc = "idle" /\ last'.call = "scheduler.step" /\ sched.kind = "StepLR") =>
        LET epoch == last'.values[1]
        IN  opt'.learning_rate =
                IF epoch > 0 /\ epoch % sched.step_size = 0
                THEN opt.learning_rate * sched.gamma
                ELSE opt.learning_rate

C18_SchedulerRates ==
    /\ []C18_EpochOnlyButStepLR
    /\ [][C18_StepLRScalesCurrentRate]_vars
    /\ [][sched.kind # "none" => sched' = sched]_vars

\* ExponentialLR with gamma 3 on an initial rate 2: step(2) after step(3) gives 18
C18_Witness ==
    /\ SchedulerStepReturned
    /\ sched.kind = "ExponentialLR" /\ sched.gamma = 3 /\ sched.initial_lr = 2
    /\ last.values = <<2>>
    /\ opt.learning_rate = 18

(***************************************************************************)
(* The gradient of a one-element loss by element j of x, from the data     *)
(* alone: the sum over the paths from the loss down to x of the product of *)
(* the derivatives along the path.                                         *)
(***************************************************************************)
Slope(T, t, i, j) ==
    IF T[t].backward_fn.op = "pow"
    THEN T[t].backward_fn.scalar
            * IntPow(T[T[t].inputs[1]].data[j], T[t].backward_fn.scalar - 1)
    ELSE Partial(T, t, i, j)

RECURSIVE LossGrad(_, _, _, _)
LossGrad(T, t, x, j) ==
    IF t = x THEN 1
    ELSE SeqSum([i \in 1..Len(T[t].inputs) |->
                    Slope(T, t, i, j) * LossGrad(T, T[t].inputs[i], x, j)])

\* step() is called right after backward() returned
StepAfterBackward == BackwardReturned /\ StepTaken

\* step() is called after a zero_grad() that followed this cycle's backward()
StepAfterZeroGrad ==
    /\ pc = "idle" /\ last.call = "optimizer.zero_grad" /\ nback = nstep + 1
    /\ StepTaken

(***************************************************************************)
(* C19: in every cycle of the loop build, zero_grad(), backward(), step(), *)
(* the grad step() reads for each tracked parameter is the gradient of     *)
(* that cycle's loss, with nothing left of earlier cycles, and plain SGD   *)
(* moves the data by lr times it; when zero_grad() runs between backward() *)
(* and step(), step() reads an all-zero grad and plain SGD leaves the data *)
(* of the parameter as it was.                                             *)
(***************************************************************************)
C19_TrainingLoopGradients ==
    [][/\ StepAfterBackward =>
            \A p \in Tracked(opt) :
                /\ tensors[p].grad =
                       [j \in 1..tensors[p].size |-> LossGrad(tensors, root, p, j)]
                /\ opt.momentum = 0 =>
                       tensors'[p].data =
                           [j \in 1..tensors[p].size |->
                               tensors[p].data[j]
                                   - opt.learning_rate * LossGrad(tensors, root, p, j)]
       /\ StepAfterZeroGrad =>
            \A p \in Tracked(opt) :
                /\ AllZero(tensors[p].grad)
                /\ opt.momentum = 0 => tensors'[p].data = tensors[p].data]_vars

\* x = 3, loss = x^2 in both cycles: the first step reads 6 and moves x to -3,
\* the second reads -6, not 0, and moves x back to 3
C19_Witness ==
    /\ pc = "idle" /\ last.call = "step" /\ nstep = 2
    /\ opt.momentum = 0 /\ 1 \in Tracked(opt)
    /\ pre[Len(pre)].backward_fn.op = "pow"
    /\ pre[1].data = <<-3>>
    /\ pre[1].grad = <<-6>>
    /\ tensors[1].data = <<3>>

(***************************************************************************)
(* Adam's first step(): what the bias correction makes of the moments      *)
(* step() has stored.                                                      *)
(***************************************************************************)

FirstAdamStepReturned ==
    pc = "idle" /\ last.call = "step" /\ opt.kind = "Adam" /\ nstep = 1

m_hat(p, i) == Quot(opt.m[p][i], 1 - Pow(opt.beta1, opt.t))

v_hat(p, i) == Quot(opt.v[p][i], 1 - Pow(opt.beta2, opt.t))

\* Element i of parameter p, of gradient g, after the first step()
Cancelled(p, i) ==
    LET g == pre[p].grad[i]
    IN  /\ m_hat(p, i) = g
        /\ v_hat(p, i) = g * g
        /\ tensors[p].data[i] =
               pre[p].data[i] - Quot(opt.learning_rate * g, Abs(g) + opt.epsilon)
        /\ g = 0 => tensors[p].data[i] = pre[p].data[i]

(***************************************************************************)
(* C20 as claimed: on Adam's first step() the bias correction cancels      *)
(* whatever beta1 and beta2 are: every element of gradient g has           *)
(* m_hat = g, v_hat = g*g and data' = data - lr*g/(|g| + eps), and an      *)
(* element with g = 0 is left unchanged.                                   *)
(***************************************************************************)
C20_FirstStepCancels ==
    FirstAdamStepReturned =>
        \A p \in Tracked(opt) :
            tensors[p].requires_grad =>
                \A i \in 1..tensors[p].size : Cancelled(p, i)

(***************************************************************************)
(* C20 as amended: on Adam's first step() with beta1 # 1 and beta2 # 1     *)
(* every element of gradient g has m_hat = g, v_hat = g*g and              *)
(* data' = data - lr*g/(|g| + eps), and an element with g = 0 is left      *)
(* unchanged; with beta1 = 1 or beta2 = 1 the correction divides 0 by 0    *)
(* and every element of the parameter becomes NaN, those with g = 0        *)
(* included.                                                               *)
(***************************************************************************)
C20_FirstStepCancelsUnlessBetaIsOne ==
    FirstAdamStepReturned =>
        \A p \in Tracked(opt) :
            tensors[p].requires_grad =>
                \A i \in 1..tensors[p].size :
                    IF opt.beta1 # 1 /\ opt.beta2 # 1
                    THEN Cancelled(p, i)
                    ELSE tensors[p].data[i] = NaN

\* w = (4, -1) with grad (2, 0), lr = 2, eps = 1, beta1 = 2, beta2 = 0:
\* the first element moves by 4/3, rounded 1, the second stays
C20_Witness ==
    /\ FirstAdamStepReturned
    /\ opt.beta1 = 2 /\ opt.beta2 = 0 /\ opt.learning_rate = 2 /\ opt.epsilon = 1
    /\ 1 \in Tracked(opt)
    /\ pre[1].data = <<4, -1>> /\ pre[1].grad = <<2, 0>>
    /\ tensors[1].data = <<3, -1>>

(***************************************************************************)
(* test_optimizers: the parameter x and what one cycle does to it.         *)
(***************************************************************************)
X(T) == T[1].data[1]

\* The optimizer as it was constructed: no step taken
AsConstructed(O, T) ==
    CASE O.kind = "SGD" -> SGD(T, O.parameters, O.learning_rate, O.momentum, O.nesterov)
      [] O.kind = "Adam" -> Adam(T, O.parameters, O.learning_rate, O.beta1, O.beta2, O.epsilon)
      [] O.kind = "RMSprop" -> RMSprop(T, O.parameters, O.learning_rate, O.alpha, O.epsilon)
      [] O.kind = "AdaGrad" -> AdaGrad(T, O.parameters, O.learning_rate, O.epsilon)

\* x after the first cycle loss = x->pow(2); zero_grad(); backward(); step()
\* of the optimizer, from x = 5.0
AfterOneStep(O) ==
    LET x == <<TensorData(<<5 * Unit>>, <<1>>, TRUE)>>
        T == run_backward(Append(x, pow_result(x, 1, 2)), 2)
    IN  X(Optimizer_step_scaled(AsConstructed(O, x), T).tensors)

DescentStepTaken == pc = "idle" /\ last.call = "backward" /\ StepTaken

TowardZero ==
    DescentStepTaken =>
        /\ Abs(X(tensors')) <= Abs(X(tensors))
        /\ X(tensors') * X(tensors) >= 0
        /\ Abs(X(tensors)) >= Unit \div 100 => Abs(X(tensors')) < Abs(X(tensors))

SmallerAfterAllSteps ==
    (opt.kind # "none" /\ nstep = DescentSteps) => Abs(X(tensors)) < Abs(AfterOneStep(opt))

SaveTaken == last'.call = "save" /\ pc = "idle"

LoadReturned(ok) == pc = "idle" /\ last.call = "load" /\ last.values = <<Bit(ok)>>

SameShapes(T, params, F) ==
    /\ F.exists
    /\ F.num_params = Len(params)
    /\ \A i \in 1..Len(params) : F.params[i].shape = T[params[i]].shape

(***************************************************************************)
(* C22: save modifies no parameter and the file holds, in parameter order, *)
(* the data the model has at save time; load into a model with the same    *)
(* number of parameters and the same shapes succeeds, and afterwards every *)
(* destination parameter's data equals, element for element and in the     *)
(* same order, the data of the file.                                       *)
(***************************************************************************)
C22_SaveLoadRoundTrip ==
    /\ [][SaveTaken =>
            /\ tensors' = tensors
            /\ LET F == files'[last'.other]
                   params == Models[last'.this]
               IN  /\ F.exists /\ F.num_params = Len(params)
                   /\ \A i \in 1..Len(params) :
                         /\ F.params[i].data = tensors[params[i]].data
                         /\ F.params[i].shape = tensors[params[i]].shape]_vars
    /\ [](pc = "idle" /\ last.call = "load" =>
            LET F == files[last.other]
                params == Models[last.this]
            IN  /\ SameShapes(pre, params, F) <=> last.values = <<1>>
                /\ last.values = <<1>> =>
                      \A i \in 1..Len(params) : tensors[params[i]].data = F.params[i].data)

\* The first model saved to path 1 and loaded into the second: the second
\* now holds 1, 2 / 3, 4 / 5
C22_Witness ==
    /\ LoadReturned(TRUE) /\ last.this = 2 /\ last.other = 1
    /\ pre[4].data = <<6, 7>>
    /\ tensors[4].data = <<1, 2>> /\ tensors[5].data = <<3, 4>> /\ tensors[6].data = <<5>>
    /\ tensors[1].data = <<1, 2>>

(***************************************************************************)
(* C23: when load fails, for a missing file, a different parameter count   *)
(* or a different shape of any parameter, the data of every destination    *)
(* parameter is the same as before the call.                               *)
(***************************************************************************)
C23_FailedLoadChangesNothing ==
    LoadReturned(FALSE) => tensors = pre

(***************************************************************************)
(* DataLoader: a pass and what it has delivered.                           *)
(***************************************************************************)
SampleCount(batches) == SeqSum([k \in 1..Len(batches) |-> Len(batches[k])])

Occurrences(batches, idx) ==
    SeqSum([k \in 1..Len(batches) |->
               Cardinality({i \in 1..Len(batches[k]) : batches[k][i] = idx})])

CeilDiv(n, b) == IF n % b = 0 THEN n \div b ELSE n \div b + 1

(***************************************************************************)
(* C24: in every pass over a loader of n samples with batch size b >= 1,   *)
(* by has_next()/next_batch() or by the range-for Iterator, has_next()     *)
(* holds exactly until ceil(n/b) = num_batches() batches have been         *)
(* delivered, so the pass ends after exactly that many; every batch holds  *)
(* b samples except possibly the last, which holds at least one; no sample *)
(* index is delivered twice and at the end of the pass each has been       *)
(* delivered once; the range-for loop runs its body exactly while          *)
(* has_next() holds; the same after reset().                               *)
(***************************************************************************)
C24_OnePassDeliversAll ==
    loader.exists =>
        LET n == loader.size
            b == loader.batch_size_
            got == loader.delivered
        IN  /\ DataLoader_num_batches(loader) = CeilDiv(n, b)
            /\ DataLoader_has_next(loader) <=> Len(got) < CeilDiv(n, b)
            /\ Len(got) <= CeilDiv(n, b)
            /\ \A k \in 1..Len(got) :
                  \/ Len(got[k]) = b
                  \/ k = CeilDiv(n, b) /\ Len(got[k]) >= 1 /\ Len(got[k]) < b
            /\ \A idx \in 0..(n - 1) :
                  /\ Occurrences(got, idx) <= 1
                  /\ ~DataLoader_has_next(loader) => Occurrences(got, idx) = 1
            /\ \A k \in 1..Len(got) : \A i \in 1..Len(got[k]) : got[k][i] \in 0..(n - 1)
            /\ loader.iterator.phase = "test" =>
                  (loader.iterator.end_ <=> ~DataLoader_has_next(loader))

\* The second pass over the 10 samples of test_6_dataloader with b = 3 has
\* ended: 4 batches, the last of one sample
C24_Witness ==
    /\ loader.exists /\ loader.size = 10 /\ loader.batch_size_ = 3
    /\ loader.passes = 2
    /\ ~DataLoader_has_next(loader)
    /\ Len(loader.delivered) = 4
    /\ loader.delivered[4] = <<9>>
    /\ SampleCount(loader.delivered) = 10

(***************************************************************************)
(* Linear layers under backward(), in LinearSpec.                          *)
(***************************************************************************)
LinearLayers == {Hidden, Output}

LossBackwardReturned == pc = "idle" /\ last.call = "backward" /\ ~last.threw

\* The layer took part in the forward pass the loss was computed from
Used(L) == L.bias \in Reach(tensors, last.this)

\* The result tensor of the layer's forward, whose grad is the upstream gradient
ResultOf(L) ==
    CHOOSE r \in Reach(tensors, last.this) :
        tensors[r].backward_fn.op = "linear" /\ tensors[r].backward_fn.other = L.bias

\* The [batch, in_features] tensor the layer multiplied by the transposed weight
InputOf(L) == tensors[tensors[ResultOf(L)].backward_fn.this].inputs[1]

NonZero(buf) == \E e \in DOMAIN buf : buf[e] # 0

\* dL/dW[o, i]: the upstream gradient of row b, column o times the input of
\* row b, column i, summed over the batch
WeightGradient(L) ==
    LET r == ResultOf(L)
        batch == tensors[r].shape[1]
    IN  [p \in 1..(L.out_features * L.in_features) |->
            SeqSum([b \in 1..batch |->
                At(tensors[r].grad, (b - 1) * L.out_features + ((p - 1) \div L.in_features))
              * At(tensors[InputOf(L)].data,
                   (b - 1) * L.in_features + ((p - 1) % L.in_features))])]

\* The upstream gradient summed over the batch dimension
BiasGradient(L) ==
    LET r == ResultOf(L)
        batch == tensors[r].shape[1]
    IN  [j \in 1..L.out_features |->
            SeqSum([b \in 1..batch |->
                At(tensors[r].grad, (b - 1) * L.out_features + (j - 1))])]

\* C25: after loss.backward() on a scalar loss computed from the output of
\* Linear::forward (one layer or several in a Sequential), the weight and the
\* bias of each Linear layer are reachable from the loss through inputs,
\* weight.grad is the matmul contribution dL/dW (non-zero whenever the input
\* and the upstream gradient are non-zero) and bias.grad is the upstream
\* gradient summed over the batch dimension.
C25_LinearParametersReceiveGradient ==
    LossBackwardReturned =>
        \A L \in LinearLayers :
            Used(L) =>
                /\ L.weight \in Reach(tensors, last.this)
                /\ L.bias \in Reach(tensors, last.this)
                /\ tensors[L.weight].grad = WeightGradient(L)
                /\ (NonZero(tensors[ResultOf(L)].grad) /\ NonZero(tensors[InputOf(L)].data)
                        /\ NonZero(WeightGradient(L))
                    => NonZero(tensors[L.weight].grad))
                /\ tensors[L.bias].grad = BiasGradient(L)

\* What the layers do instead: the bias is reachable and receives the summed
\* upstream gradient; the weight is not reachable from the loss, since the
\* transposed copy has no inputs, and its grad stays zero.
C25_OnlyBiasReceivesGradient ==
    LossBackwardReturned =>
        \A L \in LinearLayers :
            Used(L) =>
                /\ L.weight \notin Reach(tensors, last.this)
                /\ AllZero(tensors[L.weight].grad)
                /\ tensors[L.bias].grad = BiasGradient(L)

\* A loss of the two-layer network whose gradient with respect to the hidden
\* weight is non-zero
C25_Reached ==
    /\ LossBackwardReturned
    /\ Used(Hidden) /\ Used(Output)
    /\ NonZero(WeightGradient(Hidden))
    /\ NonZero(tensors[Hidden.bias].grad)

(***************************************************************************)
(* backward() twice on one root, in AccumSpec.                             *)
(***************************************************************************)
\* The heap with every grad zeroed
Zeroed(T) == [t \in DOMAIN T |-> [T[t] EXCEPT !.grad = Fill(Len(@), 0)]]

\* backward() has returned, and the heap it was entered with is the heap a
\* single backward() on the same root leaves when it starts from all-zero grads
SecondBackwardReturned ==
    /\ BackwardReturned
    /\ nback = 2
    /\ \A t \in Ids : pre[t].grad = run_backward(Zeroed(pre), root)[t].grad

Twice(buf) == [j \in 1..Len(buf) |-> 2 * buf[j]]

\* C26: starting from all-zero grads, backward() twice on the same root with
\* no zero_grad() in between leaves every leaf's grad equal to exactly twice
\* its value after a single call, for graphs of any depth.
C26_BackwardTwiceIsTwice ==
    SecondBackwardReturned /\ ~IsLeaf(tensors, root) =>
        \A x \in Ids : IsLeaf(tensors, x) => tensors[x].grad = Twice(pre[x].grad)

\* Where it does hold: every tensor the root is computed from is a leaf
C26_TwiceBelowALeafOnlyRoot ==
    /\ SecondBackwardReturned
    /\ ~IsLeaf(tensors, root)
    /\ \A t \in Reach(tensors, root) \ {root} : IsLeaf(tensors, t)
    =>
        \A x \in Ids : IsLeaf(tensors, x) => tensors[x].grad = Twice(pre[x].grad)

\* A leaf two operations below the root whose grad tripled
C26_Tripled ==
    /\ SecondBackwardReturned
    /\ \E x \in Reach(tensors, root) :
          /\ IsLeaf(tensors, x)
          /\ ~AllZero(pre[x].grad)
          /\ tensors[x].grad = [j \in 1..Len(pre[x].grad) |-> 3 * pre[x].grad[j]]

(***************************************************************************)
(* step() over a parameter list with repetitions, in TiedSpec.             *)
(***************************************************************************)
\* The parameter occurs more than once in the optimizer's list
Repeated(O, p) ==
    \E i, j \in 1..Len(O.parameters) :
        i # j /\ O.parameters[i] = p /\ O.parameters[j] = p

\* C27: one step() applies exactly one update to each distinct tracked tensor:
\* a tensor that occurs more than once in the parameter list has its data and
\* its per-parameter state advanced once per step(), as by step() of an
\* optimizer that lists it once, and not once per occurrence.
C27_OneUpdatePerStep ==
    [][StepTaken =>
          \A p \in Tracked(opt) :
              (tensors[p].requires_grad /\ Repeated(opt, p)) =>
                  LET once == Optimizer_step([opt EXCEPT !.parameters = <<p>>], tensors)
                  IN  /\ tensors'[p].data = once.tensors[p].data
                      /\ Auxiliary(opt', p) = Auxiliary(once.opt, p)]_vars

\* What step() does: one update per occurrence in the list
C27_OneUpdatePerOccurrence ==
    [][StepTaken =>
          \A p \in Tracked(opt) :
              (tensors[p].requires_grad /\ opt.parameters = <<p, p>>) =>
                  LET twice == step_loop(
                          Optimizer_step([opt EXCEPT !.parameters = <<p>>], tensors),
                          1)
                  IN  /\ tensors'[p].data = twice.tensors[p].data
                      /\ Auxiliary(opt', p) = Auxiliary(twice.opt, p)]_vars

\* Plain SGD with lr = 2 over <<w, w>>, w = (4, -1) with grad (2, 0): one step
\* has taken w to (-4, -1), two updates, where one gives (0, -1)
C27_SteppedTwice ==
    /\ opt.kind = "SGD" /\ opt.momentum = 0 /\ opt.parameters = <<1, 1>>
    /\ last.call = "step" /\ nstep = 1
    /\ pre[1].grad = <<2, 0>> /\ pre[1].data = <<4, -1>>
    /\ tensors[1].data = <<-4, -1>>

(***************************************************************************)
(* The grad buffers backward() touches, in Spec.                           *)
(***************************************************************************)
\* The element exists in a buffer as long as the tensor
InBounds(T, a) ==
    /\ Len(T[a.tensor].grad) = T[a.tensor].size
    /\ a.index < T[a.tensor].size

\* The closure backward()'s loop invokes next
NextClosure == tensors[topo[it]].backward_fn

\* backward() has seeded its root: the loop has not started
JustSeeded == pc = "backward" /\ it = Len(topo)

\* C28: during backward() on any graph of the primitive operations over
\* leaves with any mix of requires_grad (a root that does not require grad
\* included), every grad element a backward_fn reads or writes lies in a
\* buffer as long as its tensor's size, at an index below the size, so none
\* belongs to the empty buffer of a tensor that does not require grad; and
\* the seeding step writes ones to exactly the elements the root's buffer
\* has, none when the root does not require grad.
C28_GradAccessesInBounds ==
    /\ (pc = "backward" /\ it >= 1) =>
          \A a \in grad_accesses(tensors, NextClosure) :
              /\ InBounds(tensors, a)
              /\ tensors[a.tensor].requires_grad
    /\ JustSeeded =>
          /\ tensors[root].grad = Fill(Len(pre[root].grad), 1)
          /\ Len(tensors[root].grad) =
                IF tensors[root].requires_grad THEN tensors[root].size ELSE 0

\* backward() is about to run the closure of an add whose left operand does not
\* require grad and whose right operand does: it reads both elements of the
\* result's grad and touches nothing of the left operand's empty buffer
C28_Witness ==
    /\ pc = "backward" /\ it >= 1
    /\ NextClosure.op = "add"
    /\ ~tensors[NextClosure.this].requires_grad
    /\ tensors[NextClosure.this].grad = <<>>
    /\ tensors[NextClosure.other].requires_grad
    /\ tensors[NextClosure.other].size = 2
    /\ Access(NextClosure.result, 1) \in grad_accesses(tensors, NextClosure)
    /\ \A a \in grad_accesses(tensors, NextClosure) : a.tensor # NextClosure.this

(***************************************************************************)
(* DarvCycle::run_cycles, in CycleSpec.                                    *)
(***************************************************************************)
\* The two conditions, whatever the number of records: the score changes need three
check_convergence_any_size(history, threshold) ==
    LET n == Len(history)
    IN  \/ /\ n >= 3
           /\ Abs(history[n].overall_score - history[n - 1].overall_score) < threshold
           /\ Abs(history[n - 1].overall_score - history[n - 2].overall_score) < threshold
        \/ history[n].overall_score > 95

\* The prefix of the history after cycle n
Upto(n) == SubSeq(cycle.history, 1, n)

\* After cycle n the latest score exceeds 95, or the last two score changes
\* are both smaller in absolute value than the threshold
ConvergedAt(n) == check_convergence_any_size(Upto(n), cycle.convergence_threshold)

\* The same from the third cycle on only
ConvergedFromThird(n) == check_convergence(Upto(n), cycle.convergence_threshold)

\* The cycles executed so far
Executed == IF cycle.phase = "running" THEN cycle.i - 1 ELSE IF cycle.converged THEN cycle.i ELSE Len(cycle.history)

\* C30: run_cycles executes at most max_cycles cycles, appends one record per
\* executed cycle (a cycle whose build failed included, with score 0), stops
\* right after the first cycle at which the latest score exceeds 95 or the
\* last two score changes are both below convergence_threshold in absolute
\* value, and never stops for convergence when neither holds.
C30_StopsAtFirstConvergedCycle ==
    cycle.phase \in {"running", "done"} =>
        /\ Len(cycle.history) <= cycle.max_cycles
        /\ Len(cycle.history) = Executed
        /\ \A n \in 1..Len(cycle.history) :
              /\ cycle.history[n].cycle_number = n
              /\ ~cycle.history[n].build_success => cycle.history[n].overall_score = 0
              /\ n < Len(cycle.history) => ~ConvergedAt(n)
        /\ cycle.phase = "running" =>
              \A n \in 1..Len(cycle.history) : ~ConvergedAt(n)
        /\ cycle.phase = "done" =>
              /\ cycle.converged => ConvergedAt(Len(cycle.history))
              /\ ~cycle.converged =>
                    /\ Len(cycle.history) = cycle.max_cycles
                    /\ \A n \in 1..Len(cycle.history) : ~ConvergedAt(n)

\* What run_cycles does: the same with both conditions looked at from the
\* third cycle on only
C30_StopsAtFirstConvergedCycleFromThird ==
    cycle.phase \in {"running", "done"} =>
        /\ Len(cycle.history) <= cycle.max_cycles
        /\ Len(cycle.history) = Executed
        /\ \A n \in 1..Len(cycle.history) :
              /\ cycle.history[n].cycle_number = n
              /\ ~cycle.history[n].build_success => cycle.history[n].overall_score = 0
              /\ n < Len(cycle.history) => ~ConvergedFromThird(n)
        /\ cycle.phase = "running" =>
              \A n \in 1..Len(cycle.history) : ~ConvergedFromThird(n)
        /\ cycle.phase = "done" =>
              /\ cycle.converged => ConvergedFromThird(Len(cycle.history))
              /\ ~cycle.converged =>
                    /\ Len(cycle.history) = cycle.max_cycles
                    /\ \A n \in 1..Len(cycle.history) : ~ConvergedFromThird(n)

\* A first cycle has scored 96 and the loop goes on
C30_GoesOnAfterExcellentFirstCycle ==
    /\ cycle.phase = "running"
    /\ Len(cycle.history) = 1
    /\ cycle.history[1].overall_score = 96

(***************************************************************************)
(* The Dataset, in DatasetSpec.                                            *)
(***************************************************************************)
SameElements(s1, s2) ==
    /\ Len(s1) = Len(s2)
    /\ \A i \in 1..Len(s1) : s1[i] = s2[i]

\* s1 is s2 in another order: nothing lost, nothing twice
IsPermutation(s1, s2) ==
    /\ Len(s1) = Len(s2)
    /\ \E order \in Orders(Len(s1)) : \A i \in 1..Len(s1) : s1[i] = s2[order[i] + 1]

\* The (data, label) pairs a Dataset or a split holds, in its order
Held(D) == Pairs(D.data_, D.labels_)

\* The lists and size agree and hold the pairs given to the object
DatasetKeepsPairs ==
    dataset.exists =>
        /\ Len(dataset.data_) = dataset.size_
        /\ Len(dataset.labels_) = dataset.size_
        /\ IsPermutation(Held(dataset), dataset.added)

\* operator[](idx) fails exactly for idx >= size and else returns the pair at idx,
\* which is a pair given to the object
SubscriptReturnsPair ==
    (last.call = "subscript") =>
        /\ last.threw <=> last.this >= dataset.size_
        /\ ~last.threw =>
              /\ last.values = Held(dataset)[last.this + 1]
              /\ \E i \in 1..Len(dataset.added) : dataset.added[i] = last.values

\* floor(size * r) for the ratio r = <<numerator, denominator>>
FloorOfProduct(size, r) ==
    CHOOSE n \in 0..(size * r[1]) : n * r[2] <= size * r[1] /\ (n + 1) * r[2] > size * r[1]

\* train_test_split(r): the first floor(size * r) samples, then all the others
SplitAtFloor ==
    (last.call = "train_test_split") =>
        LET n == Min(FloorOfProduct(dataset.size_, last.values), dataset.size_)
        IN  /\ SameElements(Held(dataset.train), SubSeq(Held(dataset), 1, n))
            /\ SameElements(Held(dataset.test), SubSeq(Held(dataset), n + 1, dataset.size_))
            /\ dataset.train.size_ = n
            /\ dataset.test.size_ = dataset.size_ - n

\* shuffle() reorders and changes neither the size nor the pairs given
ShuffleIsAPermutation ==
    (last'.call = "shuffle" /\ dataset.exists) =>
        /\ dataset'.size_ = dataset.size_
        /\ dataset'.added = dataset.added
        /\ IsPermutation(Held(dataset'), Held(dataset))

\* C29: after any sequence of Dataset construction, add_sample and shuffle,
\* the data list, the label list and size have the same length and every
\* label is paired with the data tensor it was added with (shuffle applies
\* one permutation to both lists and loses or duplicates no sample);
\* operator[](idx) returns that pair for every idx < size and fails with an
\* out-of-range error for every idx >= size; train_test_split(r) puts the
\* first floor(size * r) samples in the train set and the others in the test
\* set.
C29_DatasetKeepsPairs ==
    /\ [](DatasetKeepsPairs /\ SubscriptReturnsPair /\ SplitAtFloor)
    /\ [][ShuffleIsAPermutation]_vars

\* A Dataset of three samples, built by the constructor and add_sample and
\* shuffled out of the order given, split at floor(3 * 4/5) = 2
C29_Witness ==
    /\ dataset.exists /\ dataset.size_ = 3
    /\ last.call = "train_test_split" /\ last.values = <<4, 5>>
    /\ dataset.added = <<<<3, 4>>, <<1, 2>>, <<1, 4>>>>
    /\ dataset.data_[1] = 1 /\ dataset.labels_[1] = 4
    /\ dataset.data_[2] = 3 /\ dataset.labels_[2] = 4
    /\ dataset.train.size_ = 2 /\ dataset.test.size_ = 1
    /\ dataset.test.data_[1] = 1 /\ dataset.test.labels_[1] = 2

====
